---- MODULE Spec2Model ----
(***************************************************************************)
(* The transaction risk-scoring engine of finShield: the feature           *)
(* extractor, the AnomalyDetector, the BehavioralProfiler, the per-holder  *)
(* RandomForestClassifier and the FraudDetectionService that fuses the     *)
(* three scores.                                                           *)
(*                                                                         *)
(* The repository holds the engine twice.  One copy pairs an autoencoder   *)
(* AnomalyDetector with a classifier built on ml-random-forest.  The       *)
(* other pairs an isolation-forest AnomalyDetector with a classifier       *)
(* built on tfjs; it imports randomForest from @tensorflow/tfjs-node,      *)
(* which exports no such name, and its classifier's constructor extracts   *)
(* features of an empty object through a function its file never           *)
(* imports, so its train and its constructor throw on every call.          *)
(* BehavioralProfiler and FraudDetectionService are the same text in       *)
(* both copies.                                                            *)
(*                                                                         *)
(* JavaScript numbers are modelled as exact rationals plus the two IEEE    *)
(* specials the code can produce (NaN, +Infinity).  What a library fits    *)
(* (autoencoder weights, forest, network) is opaque: a fitted model is     *)
(* identified by the data it was fitted on and its numeric outputs are     *)
(* nondeterministic choices from the sets named below.                     *)
(***************************************************************************)
EXTENDS Integers, Sequences, FiniteSets, TLC

VARIABLES
    variant,          \* which copy of the engine runs
    model,            \* AnomalyDetector.model
    threshold,        \* AnomalyDetector.threshold
    userProfiles,     \* BehavioralProfiler.userProfiles
    userClassifiers,  \* FraudDetectionService.userClassifiers
    trainReturned,    \* history: some AnomalyDetector.train call has returned normally
    calls,            \* history: number of FraudDetectionService calls made so far
    last,             \* the call in progress: its arguments and what it returns or throws
    isInitialized,    \* MLService.isInitialized
    tasks,            \* the MLService.analyzeTransaction calls in flight, each at an await
    storage_transactions,  \* MemStorage.transactions
    storage_alerts,   \* MemStorage.alerts
    storage_accounts, \* MemStorage.accounts: the userId of each account
    storage_authTokens,  \* MemStorage.authTokens
    loginAttempts,    \* the loginAttempts map of the auth module
    now,              \* Date.now()
    admitted          \* history: per identifier, the admitted calls in a row

\* the accounts table, and the state of the auth module and of its tokens
appVars == <<storage_accounts, storage_authTokens, loginAttempts, now, admitted>>

\* the state of MLService and of the storage it works on, and the rest of the
\* application's state
mlVars == <<isInitialized, tasks, storage_transactions, storage_alerts, appVars>>

vars == <<variant, model, threshold, userProfiles, userClassifiers,
          trainReturned, calls, last, mlVars>>

-----------------------------------------------------------------------------
(* Bounds of the model *)

\* longest transaction list handed to an operation
MaxHist == 2
\* reconstruction errors range over 0..MaxErr
MaxErr == 3
\* thresholds a training run can store range over 0..MaxThreshold
MaxThreshold == 3
\* FraudDetectionService calls in one run of the service specification
MaxCalls == 2
\* MLService.analyzeTransaction calls that can be in flight together
MaxTasks == 2
\* requests served by the routes in one run
MaxRequests == 2

-----------------------------------------------------------------------------
(* JavaScript numbers *)

RECURSIVE GCD(_, _)
GCD(a, b) == IF b = 0 THEN a ELSE GCD(b, a % b)

Abs(n) == IF n < 0 THEN -n ELSE n

NaN == [kind |-> "nan"]
PosInf == [kind |-> "inf"]

\* the finite number p/q (q # 0), in lowest terms with a positive denominator
Rat(p, q) ==
    LET g == GCD(Abs(p), Abs(q))
        s == IF q < 0 THEN -1 ELSE 1
    IN  [kind |-> "num", num |-> (s * p) \div g, den |-> (s * q) \div g]

Num(n) == [kind |-> "num", num |-> n, den |-> 1]

IsFinite(x) == x.kind = "num"
IsNaN(x) == x.kind = "nan"
IsZero(x) == x.kind = "num" /\ x.num = 0

\* x / y for a non-negative x: 0/0 is NaN, x/0 is Infinity
FDiv(x, y) ==
    IF IsNaN(x) \/ IsNaN(y) THEN NaN
    ELSE IF x = PosInf THEN (IF y = PosInf THEN NaN ELSE PosInf)
    ELSE IF y = PosInf THEN Num(0)
    ELSE IF y.num = 0 THEN (IF x.num = 0 THEN NaN ELSE PosInf)
    ELSE Rat(x.num * y.den, x.den * y.num)

\* x * y for non-negative operands: Infinity * 0 is NaN
FMul(x, y) ==
    IF IsNaN(x) \/ IsNaN(y) THEN NaN
    ELSE IF x = PosInf \/ y = PosInf
         THEN (IF IsZero(x) \/ IsZero(y) THEN NaN ELSE PosInf)
    ELSE Rat(x.num * y.num, x.den * y.den)

FAdd(x, y) ==
    IF IsNaN(x) \/ IsNaN(y) THEN NaN
    ELSE IF x = PosInf \/ y = PosInf THEN PosInf
    ELSE Rat(x.num * y.den + y.num * x.den, x.den * y.den)

\* x > y; every comparison with NaN is false
FGreater(x, y) ==
    IF IsNaN(x) \/ IsNaN(y) THEN FALSE
    ELSE IF x = PosInf THEN y # PosInf
    ELSE IF y = PosInf THEN FALSE
    ELSE x.num * y.den > y.num * x.den

\* Math.round: the nearest integer, halves towards +Infinity
MathRound(x) ==
    IF IsFinite(x) THEN Num((2 * x.num + x.den) \div (2 * x.den)) ELSE x

\* Math.min: NaN if either operand is NaN
MathMin(x, y) ==
    IF IsNaN(x) \/ IsNaN(y) THEN NaN
    ELSE IF FGreater(x, y) THEN y ELSE x

\* x || y on numbers: 0 and NaN are falsy
OrElse(x, y) == IF IsZero(x) \/ IsNaN(x) THEN y ELSE x

-----------------------------------------------------------------------------
(* Transactions.  transactionDate is counted in hours; amounts are whole    *)
(* currency units, signed as stored.                                       *)

Holders == {1, 2}

Tx(i, acct, amt, m, c, ts, fl) ==
    [id |-> i, accountId |-> acct, amount |-> amt, merchant |-> m,
     category |-> c, transactionDate |-> ts, isFlagged |-> fl]

TxPool ==
    { Tx(1, 1, 10, "Grocer", "Groceries", 9, FALSE),
      Tx(2, 2, 50, "Gadget", "Technology", 27, TRUE),
      Tx(3, 1, -20, "Grocer", "Groceries", 33, FALSE),
      Tx(4, 2, 0, "Grocer", "Groceries", 33, FALSE) }

RECURSIVE ById(_)
\* the transactions of S as a list, in storage (id) order
ById(S) ==
    IF S = {} THEN << >>
    ELSE LET t == CHOOSE x \in S : \A y \in S : x.id <= y.id
         IN  <<t>> \o ById(S \ {t})

\* the transaction lists handed to the engine
TxLists == { ById(S) : S \in { T \in SUBSET TxPool : Cardinality(T) <= MaxHist } }

\* what a caller has read from storage: the first k stored transactions
StoredPrefixes == { SubSeq(ById(TxPool), 1, k) : k \in 0..MaxHist }

Range(s) == { s[i] : i \in 1..Len(s) }

RECURSIVE SumAbs(_)
\* reduce((sum, t) => sum + Math.abs(parseFloat(t.amount.toString())), 0)
SumAbs(s) == IF s = << >> THEN 0 ELSE Abs(Head(s).amount) + SumAbs(Tail(s))

\* new Date(t.transactionDate).getHours()
HourOf(t) == t.transactionDate % 24

\* new Date(t.transactionDate).getDay(), hour 0 falling on a Thursday
DayOf(t) == ((t.transactionDate \div 24) + 4) % 7

-----------------------------------------------------------------------------
(* Feature engineering *)

Values(f) == { f[k] : k \in DOMAIN f }

extractTransactionFeatures(transaction, historicalTransactions) ==
    LET dayOfWeek == DayOf(transaction)
        isWeekend == dayOfWeek = 0 \/ dayOfWeek = 6
        amount == Num(Abs(transaction.amount))
        merchantTransactions ==
            SelectSeq(historicalTransactions,
                      LAMBDA t : t.merchant = transaction.merchant)
        merchantAvgAmount ==
            IF Len(merchantTransactions) > 0
            THEN FDiv(Num(SumAbs(merchantTransactions)), Num(Len(merchantTransactions)))
            ELSE Num(0)
        categoryTransactions ==
            SelectSeq(historicalTransactions,
                      LAMBDA t : t.category = transaction.category)
        categoryAvgAmount ==
            IF Len(categoryTransactions) > 0
            THEN FDiv(Num(SumAbs(categoryTransactions)), Num(Len(categoryTransactions)))
            ELSE Num(0)
        last24Hours ==
            SelectSeq(historicalTransactions,
                      LAMBDA t : transaction.transactionDate - t.transactionDate <= 24)
    IN  [hour |-> Num(HourOf(transaction)),
         isWeekend |-> Num(IF isWeekend THEN 1 ELSE 0),
         amount |-> amount,
         amountVsMerchantAvg |-> FDiv(amount, OrElse(merchantAvgAmount, amount)),
         amountVsCategoryAvg |-> FDiv(amount, OrElse(categoryAvgAmount, amount)),
         transactionVelocity24h |-> Num(Len(last24Hours)),
         totalAmount24h |-> Num(SumAbs(last24Hours)),
         merchantFrequency |->
             FDiv(Num(Len(merchantTransactions)), Num(Len(historicalTransactions))),
         categoryFrequency |->
             FDiv(Num(Len(categoryTransactions)), Num(Len(historicalTransactions)))]

\* x - y on finite numbers
FSub(x, y) == Rat(x.num * y.den - y.num * x.den, x.den * y.den)

RECURSIVE Newton(_, _)
\* the integer square root of n > 0, descending from x >= sqrt(n)
Newton(n, x) ==
    LET y == (x + n \div x) \div 2
    IN  IF y >= x THEN x ELSE Newton(n, y)

\* Math.sqrt of a finite non-negative number, to one decimal below the
\* denominator: 0 exactly for 0 and never 0 for a positive number
MathSqrt(x) ==
    IF x.num = 0 THEN Num(0)
    ELSE LET n == x.num * x.den * 100
         IN  Rat(Newton(n, n), x.den * 10)

\* the hour windows of the enhanced velocity features
timeWindows == <<1, 3, 6, 12, 24, 72>>

\* historicalTransactions.filter(t => timeDiff <= hours * 60 * 60 * 1000)
WindowTransactions(transaction, historicalTransactions, hours) ==
    SelectSeq(historicalTransactions,
              LAMBDA t : transaction.transactionDate - t.transactionDate <= hours)

\* val => acc + Math.pow(val - avg, 2), summed over the list
RECURSIVE SumSquares(_, _)
SumSquares(s, avg) ==
    IF s = << >> THEN Num(0)
    ELSE LET d == FSub(Num(Abs(Head(s).amount)), avg)
         IN  FAdd(FMul(d, d), SumSquares(Tail(s), avg))

\* the numeric features extractEnhancedFeatures adds to the base ones (the
\* dates of the model all lie in the first month of the epoch, so getDate() is
\* the day count plus one, getMonth() is 0 and getMinutes() is 0)
EnhancedOnly(transaction, historicalTransactions) ==
    LET velocity(h) == WindowTransactions(transaction, historicalTransactions, h)
        merchantStats ==
            SelectSeq(historicalTransactions,
                      LAMBDA t : t.merchant = transaction.merchant)
        lastMerchantTransaction ==
            IF Len(merchantStats) > 0
            THEN Num(Abs(transaction.transactionDate
                         - merchantStats[Len(merchantStats)].transactionDate))
            ELSE PosInf
        categoryStats ==
            SelectSeq(historicalTransactions,
                      LAMBDA t : t.category = transaction.category)
        lastCategoryTransaction ==
            IF Len(categoryStats) > 0
            THEN Num(Abs(transaction.transactionDate
                         - categoryStats[Len(categoryStats)].transactionDate))
            ELSE PosInf
        amount == Num(Abs(transaction.amount))
        \* slice(-10): the model's lists are shorter than ten
        recentAmounts == historicalTransactions
        avgRecentAmount ==
            IF Len(recentAmounts) > 0
            THEN FDiv(Num(SumAbs(recentAmounts)), Num(Len(recentAmounts)))
            ELSE amount
        stdRecentAmount ==
            IF Len(recentAmounts) > 0
            THEN MathSqrt(FDiv(SumSquares(recentAmounts, avgRecentAmount),
                               Num(Len(recentAmounts))))
            ELSE Num(0)
    IN  [transactions |->
             [i \in 1..Len(timeWindows) |-> Num(Len(velocity(timeWindows[i])))],
         amounts |->
             [i \in 1..Len(timeWindows) |-> Num(SumAbs(velocity(timeWindows[i])))],
         unique_merchants |->
             [i \in 1..Len(timeWindows) |->
                 Num(Cardinality({ t.merchant : t \in Range(velocity(timeWindows[i])) }))],
         unique_categories |->
             [i \in 1..Len(timeWindows) |->
                 Num(Cardinality({ t.category : t \in Range(velocity(timeWindows[i])) }))],
         hour |-> Num(HourOf(transaction)),
         minute |-> Num(0),
         dayOfWeek |-> Num(DayOf(transaction)),
         dayOfMonth |-> Num((transaction.transactionDate \div 24) + 1),
         month |-> Num(0),
         lastMerchantTransaction |-> lastMerchantTransaction,
         lastCategoryTransaction |-> lastCategoryTransaction,
         merchantTransactionCount |-> Num(Len(merchantStats)),
         categoryTransactionCount |-> Num(Len(categoryStats)),
         amountZScore |->
             IF ~IsZero(stdRecentAmount)
             THEN FDiv(FSub(amount, avgRecentAmount), stdRecentAmount)
             ELSE Num(0)]

\* extractEnhancedFeatures(transaction, historicalTransactions).  The file of
\* the tfjs copy does not import extractTransactionFeatures: its first
\* statement throws.  isRoundAmount and hasPreviousFraud are booleans
extractEnhancedFeatures(impl, transaction, historicalTransactions) ==
    IF impl = "tfjs"
    THEN [outcome |-> "error", error |-> "ReferenceError"]
    ELSE [outcome |-> "ok",
          baseFeatures |->
              extractTransactionFeatures(transaction, historicalTransactions),
          enhanced |-> EnhancedOnly(transaction, historicalTransactions),
          isRoundAmount |-> TRUE,
          hasPreviousFraud |->
              \E t \in Range(historicalTransactions) : t.isFlagged]

-----------------------------------------------------------------------------
(* AnomalyDetector (autoencoder) *)

NoModel == [null |-> TRUE]

\* private threshold: number = 0.5
InitialThreshold == Rat(1, 2)

\* what the percentile of the training reconstruction errors can come out as
ThresholdOutcomes == { Num(k) : k \in 0..MaxThreshold } \cup {NaN}

\* what the fitted autoencoder's reconstruction error can come out as
ErrorOutcomes == { Num(k) : k \in 0..MaxErr } \cup {NaN}

\* the filter with <= in place of <: a transaction is in its own history
EarlierThan_nonStrict(t, transactions) ==
    SelectSeq(transactions, LAMBDA ht : ht.transactionDate <= t.transactionDate)

\* transactions.filter(ht => new Date(ht.transactionDate) < new Date(t.transactionDate))
EarlierThan(t, transactions) ==
    SelectSeq(transactions, LAMBDA ht : ht.transactionDate < t.transactionDate)

\* transactions.map(t => extractTransactionFeatures(t, <those earlier than t>))
TrainingFeatures(transactions) ==
    [i \in 1..Len(transactions) |->
        extractTransactionFeatures(transactions[i],
                                   EarlierThan(transactions[i], transactions))]

\* train(transactions).  Autoencoder: featureMatrix[0].length throws on an
\* empty list, before this.model is assigned; otherwise a new model is built,
\* fitted and the threshold is overwritten with the percentile of its errors.
\* Isolation forest: randomForest is undefined, so createIsolationForest
\* throws before this.model is assigned, whatever the list
AnomalyDetector_train(m, thr, transactions, percentile) ==
    IF variant = "tfjs" \/ transactions = << >>
    THEN [outcome |-> "error", error |-> "TypeError", model |-> m, threshold |-> thr]
    ELSE [outcome |-> "ok", model |-> [fittedOn |-> TrainingFeatures(transactions)],
          threshold |-> percentile]

\* the mean squared error of a row holding NaN is NaN whatever the weights
ReconstructionError(features, modelError) ==
    IF \E v \in Values(features) : IsNaN(v) THEN NaN ELSE modelError

\* Math.min(Math.round((errorValue / this.threshold) * 100), 100)
AnomalyScore(errorValue, thr) ==
    MathMin(MathRound(FMul(FDiv(errorValue, thr), Num(100))), Num(100))

\* detectAnomaly without the "Model not trained" guard: an absent model scores 0
detectAnomaly_silentZero(m, thr, transaction, historicalTransactions, modelError) ==
    LET features == extractTransactionFeatures(transaction, historicalTransactions)
        errorValue == IF m = NoModel THEN Num(0)
                      ELSE ReconstructionError(features, modelError)
        score == IF m = NoModel THEN Num(0) ELSE AnomalyScore(errorValue, thr)
    IN  [outcome |-> "ok", errorValue |-> errorValue, score |-> score,
         isAnomaly |-> FGreater(score, Num(70)), features |-> features]

AnomalyDetector_detectAnomaly(m, thr, transaction, historicalTransactions, modelError) ==
    IF m = NoModel
    THEN [outcome |-> "error", error |-> "Model not trained"]
    ELSE LET features == extractTransactionFeatures(transaction, historicalTransactions)
             errorValue == ReconstructionError(features, modelError)
             score == AnomalyScore(errorValue, thr)
         IN  [outcome |-> "ok", errorValue |-> errorValue, score |-> score,
              isAnomaly |-> FGreater(score, Num(70)), features |-> features]

\* the reconstruction errors a detectAnomaly call can meet: without a model
\* none is computed and the value is not used
ErrorChoices == IF model = NoModel THEN {NaN} ELSE ErrorOutcomes

Idle == last = [op |-> "none"]

Train(transactions, percentile) ==
    LET r == AnomalyDetector_train(model, threshold, transactions, percentile)
    IN  /\ Idle
        /\ model' = r.model
        /\ threshold' = r.threshold
        /\ trainReturned' = (trainReturned \/ r.outcome = "ok")
        /\ last' = [op |-> "train", transactions |-> transactions,
                    outcome |-> r.outcome]
        /\ UNCHANGED <<variant, userProfiles, userClassifiers, calls>>
        /\ UNCHANGED mlVars

DetectAnomaly(transaction, historicalTransactions, modelError) ==
    LET r == AnomalyDetector_detectAnomaly(model, threshold, transaction,
                                           historicalTransactions, modelError)
    IN  /\ Idle
        /\ last' = [op |-> "detectAnomaly", transaction |-> transaction,
                    historicalTransactions |-> historicalTransactions,
                    modelError |-> modelError, result |-> r]
        /\ UNCHANGED <<variant, model, threshold, userProfiles,
                       userClassifiers, trainReturned, calls>>
        /\ UNCHANGED mlVars

\* the caller takes the result (or the exception) of the call in progress
Return ==
    /\ ~Idle
    /\ last' = [op |-> "none"]
    /\ UNCHANGED <<variant, model, threshold, userProfiles,
                   userClassifiers, trainReturned, calls>>
    /\ UNCHANGED mlVars

-----------------------------------------------------------------------------
(* BehavioralProfiler *)

NoProfile == [null |-> TRUE]

Least(a, b) == IF a < b THEN a ELSE b

\* updateProfile that adds the list's merchants to those of the profile the
\* holder already has, instead of replacing the profile
updateProfile_merging(profiles, userId, transactions) ==
    IF transactions = << >>
    THEN [outcome |-> "error", error |-> "TypeError", userProfiles |-> profiles]
    ELSE LET old == profiles[userId]
             profile ==
                 [typicalDayHours |-> { HourOf(t) : t \in Range(transactions) },
                  typicalMerchants |->
                      { t.merchant : t \in Range(transactions) }
                      \cup (IF old = NoProfile THEN {} ELSE old.typicalMerchants),
                  typicalCategories |-> { t.category : t \in Range(transactions) },
                  averageAmount |->
                      FDiv(Num(SumAbs(transactions)), Num(Len(transactions))),
                  transactionFrequency |->
                      FDiv(Num(Len(transactions)),
                           OrElse(Rat(transactions[Len(transactions)].transactionDate
                                        - transactions[1].transactionDate, 24),
                                  Num(1)))]
         IN  [outcome |-> "ok",
              userProfiles |-> [profiles EXCEPT ![userId] = profile]]

\* analyzeTransaction with the amount compared by >= instead of >
analyzeTransaction_nonStrict(profiles, userId, transaction) ==
    LET profile == profiles[userId]
        hour == HourOf(transaction)
        amount == Num(Abs(transaction.amount))
        twice == FMul(profile.averageAmount, Num(2))
    IN  IF profile = NoProfile
        THEN 0
        ELSE Least(
               (IF hour \notin profile.typicalDayHours THEN 20 ELSE 0)
             + (IF transaction.merchant \notin profile.typicalMerchants THEN 15 ELSE 0)
             + (IF transaction.category \notin profile.typicalCategories THEN 10 ELSE 0)
             + (IF FGreater(amount, twice) \/ amount = twice THEN 25 ELSE 0),
               100)

\* updateProfile(userId, transactions): transactions[transactions.length - 1]
\* is undefined for an empty list, so reading its transactionDate throws
\* before userProfiles.set is reached
BehavioralProfiler_updateProfile(profiles, userId, transactions) ==
    IF transactions = << >>
    THEN [outcome |-> "error", error |-> "TypeError", userProfiles |-> profiles]
    ELSE LET totalAmount == SumAbs(transactions)
             daysDiff ==
                 Rat(transactions[Len(transactions)].transactionDate
                       - transactions[1].transactionDate, 24)
             profile ==
                 [typicalDayHours |-> { HourOf(t) : t \in Range(transactions) },
                  typicalMerchants |-> { t.merchant : t \in Range(transactions) },
                  typicalCategories |-> { t.category : t \in Range(transactions) },
                  averageAmount |-> FDiv(Num(totalAmount), Num(Len(transactions))),
                  transactionFrequency |->
                      FDiv(Num(Len(transactions)), OrElse(daysDiff, Num(1)))]
         IN  [outcome |-> "ok",
              userProfiles |-> [profiles EXCEPT ![userId] = profile]]

BehavioralProfiler_analyzeTransaction(profiles, userId, transaction) ==
    LET profile == profiles[userId]
        hour == HourOf(transaction)
        amount == Num(Abs(transaction.amount))
    IN  IF profile = NoProfile
        THEN 0
        ELSE Least(
               (IF hour \notin profile.typicalDayHours THEN 20 ELSE 0)
             + (IF transaction.merchant \notin profile.typicalMerchants THEN 15 ELSE 0)
             + (IF transaction.category \notin profile.typicalCategories THEN 10 ELSE 0)
             + (IF FGreater(amount, FMul(profile.averageAmount, Num(2))) THEN 25 ELSE 0),
               100)

UpdateProfile(userId, transactions) ==
    LET r == BehavioralProfiler_updateProfile(userProfiles, userId, transactions)
    IN  /\ Idle
        /\ userProfiles' = r.userProfiles
        /\ last' = [op |-> "updateProfile", userId |-> userId,
                    transactions |-> transactions, outcome |-> r.outcome]
        /\ UNCHANGED <<variant, model, threshold, userClassifiers,
                       trainReturned, calls>>
        /\ UNCHANGED mlVars

ProfileTransaction(userId, transaction) ==
    /\ Idle
    /\ last' = [op |-> "profileTransaction", userId |-> userId,
                transaction |-> transaction,
                result |-> BehavioralProfiler_analyzeTransaction(userProfiles, userId,
                                                                 transaction)]
    /\ UNCHANGED <<variant, model, threshold, userProfiles, userClassifiers,
                   trainReturned, calls>>
    /\ UNCHANGED mlVars

-----------------------------------------------------------------------------
(* RandomForestClassifier: the one built on ml-random-forest and the one    *)
(* built on tfjs                                                            *)

NoClassifier == [null |-> TRUE]
NoForest == [null |-> TRUE]

\* transactions.map(t => extractEnhancedFeatures(t, <those earlier than t>)):
\* a row is identified by the arguments its features are computed from
TrainingRows(transactions) ==
    [i \in 1..Len(transactions) |->
        [transaction |-> transactions[i],
         historicalTransactions |-> EarlierThan(transactions[i], transactions)]]

\* historicalTransactions.map(t => t.isFlagged)
Flags(transactions) == [i \in 1..Len(transactions) |-> transactions[i].isFlagged]

\* new RandomForestClassifier(userId).  ml-random-forest: model = null.
\* tfjs: buildModel() calls extractEnhancedFeatures({} as Transaction, []),
\* whose first statement calls extractTransactionFeatures, a name the file
\* does not import (and which would read amount.toString() of the empty
\* object): the constructor throws
NewClassifier(impl, userId) ==
    IF impl = "ml-random-forest"
    THEN [outcome |-> "ok",
          classifier |-> [impl |-> impl, userId |-> userId, model |-> NoForest]]
    ELSE [outcome |-> "error", error |-> "ReferenceError",
          classifier |-> NoClassifier]

\* train(transactions, labels).  ml-random-forest: returns at once on an empty
\* list, otherwise replaces the model by a forest trained on the rows.
\* tfjs: tf.tensor2d([]) throws on an empty list, otherwise the one network
\* is fitted further, for 50 epochs
RandomForestClassifier_train(c, transactions, labels) ==
    IF c.impl = "ml-random-forest"
    THEN IF Len(transactions) = 0
         THEN [outcome |-> "ok", classifier |-> c]
         ELSE [outcome |-> "ok",
               classifier |->
                   [c EXCEPT !.model = [X |-> TrainingRows(transactions), y |-> labels]]]
    ELSE IF Len(transactions) = 0
         THEN [outcome |-> "error", error |-> "tensor2d", classifier |-> c]
         ELSE [outcome |-> "ok",
               classifier |->
                   [c EXCEPT !.model.fits =
                       Append(@, [X |-> TrainingRows(transactions), y |-> labels,
                                  epochs |-> 50])]]

\* what the fitted model can answer: a forest votes for a label it was trained
\* with; the network's sigmoid output is a number in [0,1], or NaN.  Where no
\* classifier exists nothing is asked and the value is not used
PredictOutcomes(c) ==
    IF c = NoClassifier THEN {FALSE}
    ELSE IF c.impl = "ml-random-forest"
    THEN IF c.model = NoForest THEN {FALSE} ELSE Range(c.model.y)
    ELSE {Num(0), Rat(2, 5), Num(1), NaN}

\* predict(transaction, historicalTransactions)
RandomForestClassifier_predict(c, transaction, historicalTransactions, prediction) ==
    IF c.impl = "ml-random-forest"
    THEN IF c.model = NoForest
         THEN Num(0)
         ELSE IF prediction THEN Num(100) ELSE Num(0)
    ELSE FMul(prediction, Num(100))

\* updateModel(transaction, isActuallyFraud, historicalTransactions).
\* ml-random-forest: retrains on all data including the new transaction.
\* tfjs: one more epoch of the same network on the new row alone
RandomForestClassifier_updateModel(c, transaction, isActuallyFraud, historicalTransactions) ==
    IF c.impl = "ml-random-forest"
    THEN RandomForestClassifier_train(
             c, Append(historicalTransactions, transaction),
             Append(Flags(historicalTransactions), isActuallyFraud))
    ELSE [outcome |-> "ok",
          classifier |->
              [c EXCEPT !.model.fits =
                  Append(@, [X |-> <<[transaction |-> transaction,
                                      historicalTransactions |-> historicalTransactions]>>,
                             y |-> <<isActuallyFraud>>,
                             epochs |-> 1])]]

Construct(userId) ==
    LET r == NewClassifier(variant, userId)
    IN  /\ Idle
        /\ userClassifiers' =
               [userClassifiers EXCEPT
                   ![userId] = IF r.outcome = "ok" THEN r.classifier ELSE @]
        /\ last' = [op |-> "construct", userId |-> userId, outcome |-> r.outcome]
        /\ UNCHANGED <<variant, model, threshold, userProfiles,
                       trainReturned, calls>>
        /\ UNCHANGED mlVars

ClassifierTrain(userId, transactions, labels) ==
    LET c == userClassifiers[userId]
        r == RandomForestClassifier_train(c, transactions, labels)
    IN  /\ Idle
        /\ c # NoClassifier
        /\ userClassifiers' = [userClassifiers EXCEPT ![userId] = r.classifier]
        /\ last' = [op |-> "classifierTrain", userId |-> userId,
                    transactions |-> transactions, labels |-> labels,
                    outcome |-> r.outcome]
        /\ UNCHANGED <<variant, model, threshold, userProfiles,
                       trainReturned, calls>>
        /\ UNCHANGED mlVars

ClassifierPredict(userId, transaction, historicalTransactions, prediction) ==
    LET c == userClassifiers[userId]
    IN  /\ Idle
        /\ c # NoClassifier
        /\ last' = [op |-> "predict", userId |-> userId, transaction |-> transaction,
                    historicalTransactions |-> historicalTransactions,
                    result |-> RandomForestClassifier_predict(
                                   c, transaction, historicalTransactions, prediction)]
        /\ UNCHANGED <<variant, model, threshold, userProfiles,
                       userClassifiers, trainReturned, calls>>
        /\ UNCHANGED mlVars

ClassifierUpdateModel(userId, transaction, isActuallyFraud, historicalTransactions) ==
    LET c == userClassifiers[userId]
        r == RandomForestClassifier_updateModel(c, transaction, isActuallyFraud,
                                                historicalTransactions)
    IN  /\ Idle
        /\ c # NoClassifier
        /\ userClassifiers' = [userClassifiers EXCEPT ![userId] = r.classifier]
        /\ last' = [op |-> "updateModel", userId |-> userId,
                    transaction |-> transaction, isActuallyFraud |-> isActuallyFraud,
                    historicalTransactions |-> historicalTransactions,
                    outcome |-> r.outcome]
        /\ UNCHANGED <<variant, model, threshold, userProfiles,
                       trainReturned, calls>>
        /\ UNCHANGED mlVars

-----------------------------------------------------------------------------
(* FraudDetectionService *)

\* the account's transactions without the first of them
OfAccount_skipFirst(transactions, accountId) ==
    LET own == SelectSeq(transactions, LAMBDA t : t.accountId = accountId)
    IN  IF own = << >> THEN own ELSE Tail(own)

\* the transactions of one account, in the order of the list
OfAccount(transactions, accountId) ==
    SelectSeq(transactions, LAMBDA t : t.accountId = accountId)

\* initialize(historicalTransactions): trains the detector, then for every
\* account of the list, keyed by t.accountId and in the order of first
\* appearance, builds the profile and a newly constructed classifier trained
\* on the account's transactions.  A throwing constructor ends the call after
\* the first account's profile is stored
FraudDetectionService_initialize(historicalTransactions, percentile) ==
    LET trained == AnomalyDetector_train(model, threshold, historicalTransactions,
                                         percentile)
        accounts == { t.accountId : t \in Range(historicalTransactions) }
        first == historicalTransactions[1].accountId
        profileOf(userId) ==
            BehavioralProfiler_updateProfile(
                userProfiles, userId,
                OfAccount(historicalTransactions, userId)).userProfiles[userId]
        classifierOf(userId) ==
            RandomForestClassifier_train(
                NewClassifier(variant, userId).classifier,
                OfAccount(historicalTransactions, userId),
                Flags(OfAccount(historicalTransactions, userId))).classifier
    IN  IF trained.outcome = "error"
        THEN [outcome |-> "error", error |-> trained.error,
              model |-> model, threshold |-> threshold,
              userProfiles |-> userProfiles, userClassifiers |-> userClassifiers]
        ELSE IF NewClassifier(variant, first).outcome = "error"
        THEN [outcome |-> "error", error |-> NewClassifier(variant, first).error,
              model |-> trained.model, threshold |-> trained.threshold,
              userProfiles |-> [userProfiles EXCEPT ![first] = profileOf(first)],
              userClassifiers |-> userClassifiers]
        ELSE [outcome |-> "ok",
              model |-> trained.model, threshold |-> trained.threshold,
              userProfiles |->
                  [h \in Holders |->
                      IF h \in accounts THEN profileOf(h) ELSE userProfiles[h]],
              userClassifiers |->
                  [h \in Holders |->
                      IF h \in accounts THEN classifierOf(h) ELSE userClassifiers[h]]]

\* the fusion with the weights of the anomaly and the behavioral score swapped
CombinedScore_swapped(anomalyScore, behavioralScore, classifierScore) ==
    MathRound(FAdd(FAdd(FMul(anomalyScore, Rat(3, 10)),
                        FMul(behavioralScore, Rat(4, 10))),
                   FMul(classifierScore, Rat(3, 10))))

\* Math.round(anomalyScore * 0.4 + behavioralScore * 0.3 + classifierScore * 0.3)
CombinedScore(anomalyScore, behavioralScore, classifierScore) ==
    MathRound(FAdd(FAdd(FMul(anomalyScore, Rat(4, 10)),
                        FMul(behavioralScore, Rat(3, 10))),
                   FMul(classifierScore, Rat(3, 10))))

\* the lazy classifier trained with every label false instead of the
\* history's isFlagged values
LazyTrained_unlabelled(userId, historicalTransactions) ==
    LET constructed == NewClassifier(variant, userId)
    IN  IF constructed.outcome = "error"
        THEN constructed
        ELSE RandomForestClassifier_train(
                 constructed.classifier, historicalTransactions,
                 [i \in 1..Len(historicalTransactions) |-> FALSE])

\* the classifier analyzeTransaction creates for a holder that has none: newly
\* constructed, then trained on the given history
LazyTrained(userId, historicalTransactions) ==
    LET constructed == NewClassifier(variant, userId)
    IN  IF constructed.outcome = "error"
        THEN constructed
        ELSE RandomForestClassifier_train(constructed.classifier,
                                          historicalTransactions,
                                          Flags(historicalTransactions))

\* the classifier analyzeTransaction predicts with: the holder's, or the one
\* it creates
ClassifierFor(userId, historicalTransactions) ==
    IF userClassifiers[userId] # NoClassifier
    THEN userClassifiers[userId]
    ELSE LazyTrained(userId, historicalTransactions).classifier

FraudDetectionService_analyzeTransaction(transaction, userId, historicalTransactions, modelError, prediction) ==
    LET anomalyResult ==
            AnomalyDetector_detectAnomaly(model, threshold, transaction,
                                          historicalTransactions, modelError)
        behavioralScore ==
            BehavioralProfiler_analyzeTransaction(userProfiles, userId, transaction)
        has == userClassifiers[userId] # NoClassifier
        lazy == LazyTrained(userId, historicalTransactions)
        classifierScore ==
            RandomForestClassifier_predict(ClassifierFor(userId, historicalTransactions),
                                           transaction, historicalTransactions, prediction)
        combinedScore ==
            CombinedScore(anomalyResult.score, Num(behavioralScore), classifierScore)
    IN  IF anomalyResult.outcome = "error"
        THEN [outcome |-> "error", error |-> anomalyResult.error,
              userClassifiers |-> userClassifiers]
        ELSE IF ~has /\ lazy.outcome = "error"
        THEN [outcome |-> "error", error |-> lazy.error,
              userClassifiers |-> userClassifiers]
        ELSE [outcome |-> "ok",
              suspiciousScore |-> combinedScore,
              isAnomaly |-> FGreater(combinedScore, Num(70)),
              anomalyScore |-> anomalyResult.score,
              behavioralScore |-> behavioralScore,
              classifierScore |-> classifierScore,
              features |-> anomalyResult.features,
              userClassifiers |->
                  IF has THEN userClassifiers
                  ELSE [userClassifiers EXCEPT ![userId] = lazy.classifier]]

\* updateModels that gives a holder without a classifier a new one, trained
\* on the history and the reviewed transaction
updateModels_creating(transaction, userId, isActuallyFraud, historicalTransactions) ==
    LET profiled ==
            BehavioralProfiler_updateProfile(
                userProfiles, userId, Append(historicalTransactions, transaction))
        c == IF userClassifiers[userId] # NoClassifier
             THEN userClassifiers[userId]
             ELSE NewClassifier(variant, userId).classifier
    IN  [outcome |-> "ok",
         userProfiles |-> profiled.userProfiles,
         userClassifiers |->
             IF c = NoClassifier THEN userClassifiers
             ELSE [userClassifiers EXCEPT ![userId] =
                      RandomForestClassifier_updateModel(
                          c, transaction, isActuallyFraud,
                          historicalTransactions).classifier]]

\* updateModels(transaction, userId, isActuallyFraud, historicalTransactions)
FraudDetectionService_updateModels(transaction, userId, isActuallyFraud, historicalTransactions) ==
    LET profiled ==
            BehavioralProfiler_updateProfile(
                userProfiles, userId, Append(historicalTransactions, transaction))
        updated ==
            RandomForestClassifier_updateModel(userClassifiers[userId], transaction,
                                               isActuallyFraud, historicalTransactions)
    IN  [outcome |-> "ok",
         userProfiles |-> profiled.userProfiles,
         userClassifiers |->
             IF userClassifiers[userId] # NoClassifier
             THEN [userClassifiers EXCEPT ![userId] = updated.classifier]
             ELSE userClassifiers]

Initialize(historicalTransactions, percentile) ==
    LET r == FraudDetectionService_initialize(historicalTransactions, percentile)
    IN  /\ Idle
        /\ calls < MaxCalls
        /\ calls' = calls + 1
        /\ model' = r.model
        /\ threshold' = r.threshold
        /\ userProfiles' = r.userProfiles
        /\ userClassifiers' = r.userClassifiers
        /\ trainReturned' = (trainReturned \/ r.outcome = "ok")
        /\ last' = [op |-> "initialize",
                    historicalTransactions |-> historicalTransactions,
                    outcome |-> r.outcome]
        /\ UNCHANGED variant
        /\ UNCHANGED mlVars

AnalyzeTransaction(transaction, userId, historicalTransactions, modelError, prediction) ==
    LET r == FraudDetectionService_analyzeTransaction(
                 transaction, userId, historicalTransactions, modelError, prediction)
    IN  /\ Idle
        /\ calls < MaxCalls
        /\ calls' = calls + 1
        /\ userClassifiers' = r.userClassifiers
        /\ last' = [op |-> "analyzeTransaction", transaction |-> transaction,
                    userId |-> userId,
                    historicalTransactions |-> historicalTransactions,
                    result |-> [f \in DOMAIN r \ {"userClassifiers"} |-> r[f]]]
        /\ UNCHANGED <<variant, model, threshold, userProfiles, trainReturned>>
        /\ UNCHANGED mlVars

\* updateModels that also refits the AnomalyDetector on the history and the
\* reviewed transaction
UpdateModels_retraining(transaction, userId, isActuallyFraud, historicalTransactions) ==
    LET r == FraudDetectionService_updateModels(transaction, userId, isActuallyFraud,
                                                historicalTransactions)
    IN  /\ Idle
        /\ calls < MaxCalls
        /\ calls' = calls + 1
        /\ userProfiles' = r.userProfiles
        /\ userClassifiers' = r.userClassifiers
        /\ model' = [fittedOn |->
                        TrainingFeatures(Append(historicalTransactions, transaction))]
        /\ last' = [op |-> "updateModels", transaction |-> transaction,
                    userId |-> userId, isActuallyFraud |-> isActuallyFraud,
                    historicalTransactions |-> historicalTransactions,
                    outcome |-> r.outcome]
        /\ UNCHANGED <<variant, threshold, trainReturned>>
        /\ UNCHANGED mlVars

UpdateModels(transaction, userId, isActuallyFraud, historicalTransactions) ==
    LET r == FraudDetectionService_updateModels(transaction, userId, isActuallyFraud,
                                                historicalTransactions)
    IN  /\ Idle
        /\ calls < MaxCalls
        /\ calls' = calls + 1
        /\ userProfiles' = r.userProfiles
        /\ userClassifiers' = r.userClassifiers
        /\ last' = [op |-> "updateModels", transaction |-> transaction,
                    userId |-> userId, isActuallyFraud |-> isActuallyFraud,
                    historicalTransactions |-> historicalTransactions,
                    outcome |-> r.outcome]
        /\ UNCHANGED <<variant, model, threshold, trainReturned>>
        /\ UNCHANGED mlVars

-----------------------------------------------------------------------------
(* The storage MLService reads *)

\* the accounts table in which every holder owns the one account that carries
\* the holder's id
OwnAccounts == [a \in Holders |-> a]

\* the accounts table in which the first holder owns every account
JointAccounts == [a \in Holders |-> CHOOSE h \in Holders : \A g \in Holders : h <= g]

\* the accounts tables a run starts with
AccountTables == {OwnAccounts, JointAccounts}

\* storage.getAccount(id)
getAccount(id) == [id |-> id, userId |-> storage_accounts[id]]

\* a row of the transactions table: the transaction and the columns the
\* engine and the reviewer write, with the defaults of the schema
StoredTransaction(t) ==
    [id |-> t.id, accountId |-> t.accountId, amount |-> t.amount,
     merchant |-> t.merchant, category |-> t.category,
     transactionDate |-> t.transactionDate, isFlagged |-> t.isFlagged,
     suspiciousScore |-> Num(0), reviewStatus |-> "pending"]

\* storage.getAllTransactions(): ascending by date, which for the stored rows
\* is the order of their ids
getAllTransactions ==
    ById({ storage_transactions[i] : i \in DOMAIN storage_transactions })

Reverse(s) == [i \in 1..Len(s) |-> s[Len(s) + 1 - i]]

\* storage.getTransactionsByUserId(userId): the rows of the holder's accounts,
\* descending by date
getTransactionsByUserId(userId) ==
    Reverse(SelectSeq(getAllTransactions,
                      LAMBDA t : getAccount(t.accountId).userId = userId))

\* an MLService.analyzeTransaction call that has not been made yet
NoTask == [pc |-> "idle"]

-----------------------------------------------------------------------------
(* The auth module: login attempts and magic links *)

\* const MAGIC_LINK_EXPIRY = 15 * 60 * 1000
MAGIC_LINK_EXPIRY == 15 * 60 * 1000

\* const EMAIL_VERIFICATION_EXPIRY = 24 * 60 * 60 * 1000
EMAIL_VERIFICATION_EXPIRY == 24 * 60 * 60 * 1000

\* const MAX_LOGIN_ATTEMPTS = 5
MAX_LOGIN_ATTEMPTS == 5

\* const LOGIN_LOCKOUT_TIME = 15 * 60 * 1000
LOGIN_LOCKOUT_TIME == 15 * 60 * 1000

\* the usernames login requests carry
Identifiers == {"ann", "bob"}

\* loginAttempts.get(identifier) of an identifier the map does not hold
NoAttempts == [count |-> -1, lastAttempt |-> -1]

\* the token strings requests carry
Tokens == {"t1", "t2"}

\* authTokens.get(token) of a token the map does not hold
NoAuthToken == [type |-> "undefined"]

\* usedAt of a token that has not been marked used
NotUsed == -1

\* the clock stands at a multiple of the lockout time, up to MaxLockouts of
\* them, or up to MaxDrift milliseconds later
MaxLockouts == 1
MaxDrift == 1

\* what the calls of the auth module leave alone
engineVars == <<variant, model, threshold, userProfiles, userClassifiers,
                trainReturned, calls>>
serviceVars == <<isInitialized, storage_transactions, storage_alerts, storage_accounts>>

\* time passes: a millisecond, or a whole lockout time
Tick(d) ==
    /\ (now + d) \div LOGIN_LOCKOUT_TIME <= MaxLockouts
    /\ (now + d) % LOGIN_LOCKOUT_TIME <= MaxDrift
    /\ now' = now + d
    /\ UNCHANGED <<engineVars, serviceVars, last, tasks, storage_authTokens,
                   loginAttempts, admitted>>

\* checkLoginAttempts(identifier) at Date.now() = t: the result, and the map
\* it leaves
checkLoginAttempts(map, identifier, t) ==
    LET attempts == map[identifier]
        fresh == [map EXCEPT ![identifier] = [count |-> 0, lastAttempt |-> t]]
    IN  IF attempts = NoAttempts
        THEN [result |-> TRUE, loginAttempts |-> fresh]
        ELSE IF t - attempts.lastAttempt > LOGIN_LOCKOUT_TIME
        THEN [result |-> TRUE, loginAttempts |-> fresh]
        ELSE IF attempts.count >= MAX_LOGIN_ATTEMPTS
        THEN [result |-> FALSE, loginAttempts |-> map]
        ELSE [result |-> TRUE,
              loginAttempts |->
                  [map EXCEPT ![identifier] =
                      [count |-> attempts.count + 1, lastAttempt |-> t]]]

\* POST /login calls checkLoginAttempts(username).  The history counts the
\* admitted calls in a row: one more if the call is admitted within the
\* lockout time of the previous admitted one, one if it is admitted later
CheckLoginAttempts(identifier) ==
    LET r == checkLoginAttempts(loginAttempts, identifier, now)
        h == admitted[identifier]
    IN  /\ loginAttempts' = r.loginAttempts
        /\ admitted' =
               IF r.result
               THEN [admitted EXCEPT ![identifier] =
                        [count |-> IF h.count > 0 /\ now - h.at <= LOGIN_LOCKOUT_TIME
                                   THEN h.count + 1 ELSE 1,
                         at |-> now]]
               ELSE admitted
        /\ last' = [op |-> "checkLoginAttempts", identifier |-> identifier,
                    result |-> r.result]
        /\ UNCHANGED <<engineVars, serviceVars, tasks, storage_authTokens, now>>

\* resetLoginAttempts(identifier): loginAttempts.delete(identifier)
ResetLoginAttempts(identifier) ==
    /\ loginAttempts' = [loginAttempts EXCEPT ![identifier] = NoAttempts]
    /\ admitted' = [admitted EXCEPT ![identifier] = [count |-> 0, at |-> 0]]
    /\ last' = [op |-> "resetLoginAttempts", identifier |-> identifier]
    /\ UNCHANGED <<engineVars, serviceVars, tasks, storage_authTokens, now>>

\* createMagicLink and createEmailVerificationToken: storage.createAuthToken
\* with a token string not issued before, expiring after the type's lifetime
CreateAuthToken(token, type, userId) ==
    /\ storage_authTokens[token] = NoAuthToken
    /\ storage_authTokens' =
           [storage_authTokens EXCEPT ![token] =
               [userId |-> userId, type |-> type,
                expiresAt |-> now + (IF type = "magic_link" THEN MAGIC_LINK_EXPIRY
                                     ELSE EMAIL_VERIFICATION_EXPIRY),
                usedAt |-> NotUsed]]
    /\ UNCHANGED <<engineVars, serviceVars, last, tasks, loginAttempts, now,
                   admitted>>

\* markAuthTokenUsed that leaves usedAt as it is
markAuthTokenUsed_forgetting(authTokens, token, t) == authTokens

\* storage.markAuthTokenUsed(token) at new Date() = t: the body runs when the
\* function is called, before the caller's await
markAuthTokenUsed(authTokens, token, t) ==
    IF authTokens[token] = NoAuthToken THEN authTokens
    ELSE [authTokens EXCEPT ![token].usedAt = t]

\* the condition under which verifyMagicLink returns null: no token, not a
\* magic link, used, or expired at new Date() = t
Rejected(authToken, t) ==
    \/ authToken = NoAuthToken
    \/ authToken.type # "magic_link"
    \/ authToken.usedAt # NotUsed
    \/ authToken.expiresAt < t

\* POST /verify-magic-link: verifyMagicLink(token) runs to its await of
\* storage.getAuthToken(token), which has returned the stored object itself,
\* or undefined
VerifyStart(i, token) ==
    /\ tasks[i] = NoTask
    /\ tasks' = [tasks EXCEPT ![i] =
                    [pc |-> "lookedUp", token |-> token,
                     found |-> storage_authTokens[token] # NoAuthToken,
                     result |-> "pending"]]
    /\ UNCHANGED <<engineVars, serviceVars, last, storage_authTokens,
                   loginAttempts, now, admitted>>

\* the call resumes: it reads type, usedAt and expiresAt from the object it
\* holds, returns null, or calls markAuthTokenUsed and awaits it
VerifyCheck(i) ==
    LET token == tasks[i].token
        authToken == IF tasks[i].found THEN storage_authTokens[token]
                     ELSE NoAuthToken
    IN  /\ tasks[i].pc = "lookedUp"
        /\ IF Rejected(authToken, now)
           THEN /\ tasks' = [tasks EXCEPT ![i].pc = "done", ![i].result = "null"]
                /\ UNCHANGED storage_authTokens
           ELSE /\ tasks' = [tasks EXCEPT ![i].pc = "marked", ![i].result = "user"]
                /\ storage_authTokens' =
                       markAuthTokenUsed(storage_authTokens, token, now)
        /\ UNCHANGED <<engineVars, serviceVars, last, loginAttempts, now, admitted>>

\* the call resumes and returns storage.getUser(authToken.userId)
VerifyReturn(i) ==
    /\ tasks[i].pc = "marked"
    /\ tasks' = [tasks EXCEPT ![i].pc = "done"]
    /\ UNCHANGED <<engineVars, serviceVars, last, storage_authTokens,
                   loginAttempts, now, admitted>>

-----------------------------------------------------------------------------
(* Initial state: the state after the constructors have run *)

\* the copy with the autoencoder and ml-random-forest, and the copy with the
\* isolation forest and tfjs
Variants == {"ml-random-forest", "tfjs"}

\* the engine and MLService as constructed
InitEngine ==
    /\ variant \in Variants
    /\ model = NoModel
    /\ threshold = InitialThreshold
    /\ userProfiles = [h \in Holders |-> NoProfile]
    /\ userClassifiers = [h \in Holders |-> NoClassifier]
    /\ trainReturned = FALSE
    /\ calls = 0
    /\ last = [op |-> "none"]
    /\ isInitialized = FALSE
    /\ tasks = [i \in 1..MaxTasks |-> NoTask]
    /\ storage_alerts = << >>
    /\ storage_authTokens = [token \in Tokens |-> NoAuthToken]
    /\ loginAttempts = [identifier \in Identifiers |-> NoAttempts]
    /\ now = 0
    /\ admitted = [identifier \in Identifiers |-> [count |-> 0, at |-> 0]]

\* the rows of the given transactions, keyed by id
RowsOf(S) ==
    [i \in { t.id : t \in S } |-> StoredTransaction(CHOOSE t \in S : t.id = i)]

Init ==
    /\ InitEngine
    /\ storage_transactions = RowsOf(TxPool)
    /\ storage_accounts = OwnAccounts

-----------------------------------------------------------------------------
(* The AnomalyDetector on its own *)

NextDetector ==
    \/ \E transactions \in TxLists, percentile \in ThresholdOutcomes :
           Train(transactions, percentile)
    \/ \E transaction \in TxPool, historicalTransactions \in TxLists,
          modelError \in ErrorChoices :
           DetectAnomaly(transaction, historicalTransactions, modelError)
    \/ Return

SpecDetector == Init /\ [][NextDetector]_vars

-----------------------------------------------------------------------------
(* The BehavioralProfiler on its own *)

NextProfiler ==
    \/ \E userId \in Holders, transactions \in TxLists :
           UpdateProfile(userId, transactions)
    \/ \E userId \in Holders, transaction \in TxPool :
           ProfileTransaction(userId, transaction)
    \/ Return

\* the BehavioralProfiler is the same text in both copies
InitProfiler == Init /\ variant = "ml-random-forest"

SpecProfiler == InitProfiler /\ [][NextProfiler]_vars

-----------------------------------------------------------------------------
(* One RandomForestClassifier on its own *)

LabelsFor(transactions) == [1..Len(transactions) -> BOOLEAN]

TheHolder == CHOOSE h \in Holders : \A g \in Holders : h <= g

NextClassifier ==
    \/ Construct(TheHolder)
    \/ \E transactions \in TxLists : \E labels \in LabelsFor(transactions) :
           ClassifierTrain(TheHolder, transactions, labels)
    \/ \E transaction \in TxPool, historicalTransactions \in TxLists,
          prediction \in PredictOutcomes(userClassifiers[TheHolder]) :
           ClassifierPredict(TheHolder, transaction, historicalTransactions, prediction)
    \/ \E transaction \in TxPool, isActuallyFraud \in BOOLEAN,
          historicalTransactions \in TxLists :
           ClassifierUpdateModel(TheHolder, transaction, isActuallyFraud,
                                 historicalTransactions)
    \/ Return

SpecClassifier == Init /\ [][NextClassifier]_vars

-----------------------------------------------------------------------------
(* The FraudDetectionService: runs of at most MaxCalls calls *)

Next ==
    \/ \E historicalTransactions \in StoredPrefixes, percentile \in ThresholdOutcomes :
           Initialize(historicalTransactions, percentile)
    \/ \E transaction \in TxPool, userId \in Holders,
          historicalTransactions \in StoredPrefixes, modelError \in ErrorChoices :
           \E prediction \in PredictOutcomes(ClassifierFor(userId, historicalTransactions)) :
               AnalyzeTransaction(transaction, userId, historicalTransactions,
                                  modelError, prediction)
    \/ \E transaction \in TxPool, userId \in Holders, isActuallyFraud \in BOOLEAN,
          historicalTransactions \in StoredPrefixes :
           UpdateModels(transaction, userId, isActuallyFraud, historicalTransactions)
    \/ Return

Spec == Init /\ [][Next]_vars

-----------------------------------------------------------------------------
(* The service in the end-to-end scenario: one holder with ten grocery      *)
(* transactions, none flagged, and a candidate unlike all of them           *)

ScenarioHolder == CHOOSE h \in Holders : \A g \in Holders : h <= g

GroceryAmounts == <<30, 70, 40, 60, 50, 50, 45, 55, 20, 80>>

\* one purchase a day at the same hour, at the one merchant
GroceryHistory ==
    [k \in 1..Len(GroceryAmounts) |->
        Tx(10 + k, ScenarioHolder, GroceryAmounts[k], "Grocer", "Groceries",
           24 * k + 9, FALSE)]

Candidate ==
    Tx(10 + Len(GroceryAmounts) + 1, ScenarioHolder, 450, "Gadget", "Technology",
       24 * (Len(GroceryAmounts) + 1) + 3, FALSE)

\* the service is initialized with the holder's history and asked about the
\* candidate, or about one of the purchases it already knows
NextE2E ==
    \/ \E percentile \in ThresholdOutcomes : Initialize(GroceryHistory, percentile)
    \/ \E transaction \in {Candidate} \cup Range(GroceryHistory),
          modelError \in ErrorChoices :
           \E prediction \in
                  PredictOutcomes(ClassifierFor(ScenarioHolder, GroceryHistory)) :
               AnalyzeTransaction(transaction, ScenarioHolder, GroceryHistory,
                                  modelError, prediction)
    \/ Return

SpecE2E == Init /\ [][NextE2E]_vars

-----------------------------------------------------------------------------
(* The two train methods on their own: one detector and one classifier *)

NextTrain ==
    \/ \E transactions \in TxLists, percentile \in ThresholdOutcomes :
           Train(transactions, percentile)
    \/ Construct(TheHolder)
    \/ \E transactions \in TxLists : \E labels \in LabelsFor(transactions) :
           ClassifierTrain(TheHolder, transactions, labels)
    \/ Return

SpecTrain == Init /\ [][NextTrain]_vars

-----------------------------------------------------------------------------
(* The two ways a holder's classifier comes to exist: initialize over a      *)
(* corpus, and the first analyzeTransaction for the holder, each with any    *)
(* list of the pool                                                          *)

NextBootstrap ==
    \/ \E historicalTransactions \in TxLists, percentile \in ThresholdOutcomes :
           Initialize(historicalTransactions, percentile)
    \/ \E transaction \in TxPool, userId \in Holders,
          historicalTransactions \in TxLists, modelError \in ErrorChoices :
           \E prediction \in PredictOutcomes(ClassifierFor(userId, historicalTransactions)) :
               AnalyzeTransaction(transaction, userId, historicalTransactions,
                                  modelError, prediction)
    \/ Return

SpecBootstrap == Init /\ [][NextBootstrap]_vars

-----------------------------------------------------------------------------
(* The feature extractors on their own *)

Extract(transaction, historicalTransactions) ==
    /\ Idle
    /\ last' = [op |-> "extract", transaction |-> transaction,
                historicalTransactions |-> historicalTransactions,
                result |-> extractTransactionFeatures(transaction,
                                                      historicalTransactions)]
    /\ UNCHANGED <<variant, model, threshold, userProfiles,
                   userClassifiers, trainReturned, calls>>
    /\ UNCHANGED mlVars

ExtractEnhanced(transaction, historicalTransactions) ==
    /\ Idle
    /\ last' = [op |-> "extractEnhanced", transaction |-> transaction,
                historicalTransactions |-> historicalTransactions,
                result |-> extractEnhancedFeatures(variant, transaction,
                                                   historicalTransactions)]
    /\ UNCHANGED <<variant, model, threshold, userProfiles,
                   userClassifiers, trainReturned, calls>>
    /\ UNCHANGED mlVars

NextExtract ==
    \/ \E transaction \in TxPool, historicalTransactions \in TxLists :
           Extract(transaction, historicalTransactions)
    \/ \E transaction \in TxPool, historicalTransactions \in TxLists :
           ExtractEnhanced(transaction, historicalTransactions)
    \/ Return

SpecExtract == Init /\ [][NextExtract]_vars

-----------------------------------------------------------------------------
(* Properties of the feature extractors *)

\* the numbers of an enhanced feature record
EnhancedNumbers(r) ==
    Values(r.baseFeatures)
    \cup UNION { Range(r.enhanced[k]) :
                   k \in {"transactions", "amounts", "unique_merchants",
                          "unique_categories"} }
    \cup { r.enhanced[k] :
             k \in DOMAIN r.enhanced \ {"transactions", "amounts",
                                        "unique_merchants", "unique_categories"} }

\* C11: whatever the transaction (amount 0 included) and the history, the base
\* extractor returns amountVsMerchantAvg = 1 when the history holds no
\* transaction of the merchant and amountVsCategoryAvg = 1 when it holds none
\* of the category, and both ratios are finite
C11_RatiosFiniteAndOne ==
    last.op = "extract" =>
        LET t == last.transaction
            hist == Range(last.historicalTransactions)
            f == last.result
        IN  /\ IsFinite(f.amountVsMerchantAvg)
            /\ IsFinite(f.amountVsCategoryAvg)
            /\ (\A h \in hist : h.merchant # t.merchant)
                   => f.amountVsMerchantAvg = Num(1)
            /\ (\A h \in hist : h.category # t.category)
                   => f.amountVsCategoryAvg = Num(1)

\* C12: every number of the feature vector is finite, for the base extractor
\* and for the enhanced one, whatever the transaction and the history (the
\* empty history and an unseen merchant or category included)
C12_AllFeaturesFinite ==
    /\ last.op = "extract" => \A v \in Values(last.result) : IsFinite(v)
    /\ (last.op = "extractEnhanced" /\ last.result.outcome = "ok")
           => \A v \in EnhancedNumbers(last.result) : IsFinite(v)

-----------------------------------------------------------------------------
(* MLService.analyzeTransaction calls in flight together, as the requests   *)
(* of the routes make them (GET /api/transactions maps the holder's rows    *)
(* through Promise.all).  A call runs from one await to the next; between   *)
(* two awaits no other call runs.  An awaited call into a library (fit,     *)
(* train, predict) resolves or rejects.  Scores are not computed here.      *)

\* the call is made: with isInitialized false it enters initialize(), passes
\* its guard and awaits storage.getAllTransactions(); otherwise it awaits the
\* holder's history
StartAnalyze(i, userId) ==
    /\ tasks[i] = NoTask
    /\ tasks' = [tasks EXCEPT ![i] =
                    [pc |-> IF isInitialized THEN "detect" ELSE "getAll",
                     userId |-> userId,
                     startedInitialize |-> FALSE,
                     afterInitialized |-> isInitialized,
                     installed |-> FALSE,
                     saw |-> "nothing"]]
    /\ UNCHANGED <<variant, model, threshold, userProfiles, userClassifiers,
                   trainReturned, calls, last, isInitialized,
                   storage_transactions, storage_alerts,
                   appVars>>

\* FraudDetectionService.initialize starts: AnomalyDetector.train runs up to
\* its await of fit.  It throws on an empty list and in the isolation-forest
\* copy; otherwise this.model is the new, unfitted model
InitializeTrain(i) ==
    LET all == getAllTransactions
        throws == AnomalyDetector_train(model, threshold, all, NaN).outcome = "error"
    IN  /\ tasks[i].pc = "getAll"
        /\ tasks' = [tasks EXCEPT ![i].pc = IF throws THEN "failed" ELSE "fit",
                                  ![i].startedInitialize = TRUE]
        /\ model' = IF throws THEN model
                    ELSE [fittedOn |-> TrainingFeatures(all), by |-> i,
                          fitted |-> FALSE]
        /\ UNCHANGED <<variant, threshold, userProfiles, userClassifiers,
                       trainReturned, calls, last, isInitialized,
                       storage_transactions, storage_alerts,
                       appVars>>

\* fit resolves: the model of this call is fitted; the threshold is computed
\* through this.model, whichever model that is by now, and stored
InitializeFitted(i, percentile) ==
    /\ tasks[i].pc = "fit"
    /\ tasks' = [tasks EXCEPT ![i].pc = "perUser"]
    /\ model' = IF model.by = i THEN [model EXCEPT !.fitted = TRUE] ELSE model
    /\ threshold' = percentile
    /\ trainReturned' = TRUE
    /\ UNCHANGED <<variant, userProfiles, userClassifiers, calls, last,
                   isInitialized, storage_transactions, storage_alerts,
                   appVars>>

\* fit rejects: train and initialize end with the error
InitializeFitRejected(i) ==
    /\ tasks[i].pc = "fit"
    /\ tasks' = [tasks EXCEPT ![i].pc = "failed"]
    /\ UNCHANGED <<variant, model, threshold, userProfiles, userClassifiers,
                   trainReturned, calls, last, isInitialized,
                   storage_transactions, storage_alerts,
                   appVars>>

\* the loop over the accounts (the awaits between two accounts are not
\* modelled), then isInitialized = true and the await of the holder's history
InitializePerUser(i) ==
    LET r == FraudDetectionService_initialize(getAllTransactions, threshold)
    IN  /\ tasks[i].pc = "perUser"
        /\ tasks' = [tasks EXCEPT ![i].pc = "detect"]
        /\ userProfiles' = r.userProfiles
        /\ userClassifiers' = r.userClassifiers
        /\ isInitialized' = TRUE
        /\ UNCHANGED <<variant, model, threshold, trainReturned, calls, last,
                       storage_transactions, storage_alerts,
                       appVars>>

\* detectAnomaly reads this.model and this.threshold
TaskDetect(i) ==
    /\ tasks[i].pc = "detect"
    /\ tasks' = [tasks EXCEPT
                    ![i].pc = IF model = NoModel THEN "failed" ELSE "classify",
                    ![i].saw = IF model = NoModel THEN "nothing"
                               ELSE IF model.fitted THEN "fitted"
                               ELSE "unfinished"]
    /\ UNCHANGED <<variant, model, threshold, userProfiles, userClassifiers,
                   trainReturned, calls, last, isInitialized,
                   storage_transactions, storage_alerts,
                   appVars>>

\* userClassifiers.has(userId) is true: predict is awaited
ClassifyExisting(i) ==
    /\ tasks[i].pc = "classify"
    /\ userClassifiers[tasks[i].userId] # NoClassifier
    /\ tasks' = [tasks EXCEPT ![i].pc = "predict"]
    /\ UNCHANGED <<variant, model, threshold, userProfiles, userClassifiers,
                   trainReturned, calls, last, isInitialized,
                   storage_transactions, storage_alerts,
                   appVars>>

\* userClassifiers.has(userId) is false: a classifier is constructed and its
\* train is awaited; with trainOk false the library's train throws
LazyTrain(i, trainOk) ==
    LET hist == getTransactionsByUserId(tasks[i].userId)
        lazy == LazyTrained(tasks[i].userId, hist)
    IN  /\ tasks[i].pc = "classify"
        /\ userClassifiers[tasks[i].userId] = NoClassifier
        /\ trainOk \/ hist # << >>
        /\ tasks' = [tasks EXCEPT
                        ![i].pc = IF lazy.outcome = "ok" /\ trainOk
                                  THEN "lazyTrained" ELSE "failed"]
        /\ UNCHANGED <<variant, model, threshold, userProfiles, userClassifiers,
                       trainReturned, calls, last, isInitialized,
                       storage_transactions, storage_alerts,
                       appVars>>

\* train has resolved: userClassifiers.set(userId, classifier), then predict
\* is awaited
LazyInstall(i) ==
    LET hist == getTransactionsByUserId(tasks[i].userId)
    IN  /\ tasks[i].pc = "lazyTrained"
        /\ userClassifiers' =
               [userClassifiers EXCEPT ![tasks[i].userId] =
                   LazyTrained(tasks[i].userId, hist).classifier]
        /\ tasks' = [tasks EXCEPT ![i].pc = "predict", ![i].installed = TRUE]
        /\ UNCHANGED <<variant, model, threshold, userProfiles, trainReturned,
                       calls, last, isInitialized, storage_transactions,
                       storage_alerts,
                       appVars>>

\* predict resolves and the assessment is returned
TaskPredicted(i) ==
    /\ tasks[i].pc = "predict"
    /\ tasks' = [tasks EXCEPT ![i].pc = "done"]
    /\ UNCHANGED <<variant, model, threshold, userProfiles, userClassifiers,
                   trainReturned, calls, last, isInitialized,
                   storage_transactions, storage_alerts,
                   appVars>>

\* predict rejects: a classifier without a model answers 0 before it reaches
\* the library, a fitted one calls the library's predict
TaskPredictRejected(i) ==
    /\ tasks[i].pc = "predict"
    /\ userClassifiers[tasks[i].userId].model # NoForest
    /\ tasks' = [tasks EXCEPT ![i].pc = "failed"]
    /\ UNCHANGED <<variant, model, threshold, userProfiles, userClassifiers,
                   trainReturned, calls, last, isInitialized,
                   storage_transactions, storage_alerts,
                   appVars>>

\* storage.createTransaction: a row arrives in the table
CreateTransaction(t) ==
    /\ t.id \notin DOMAIN storage_transactions
    /\ storage_transactions' =
           [i \in DOMAIN storage_transactions \cup {t.id} |->
               IF i = t.id THEN StoredTransaction(t) ELSE storage_transactions[i]]
    /\ UNCHANGED <<variant, model, threshold, userProfiles, userClassifiers,
                   trainReturned, calls, last, isInitialized, tasks,
                   storage_alerts,
                   appVars>>

NextAsync ==
    \/ \E i \in 1..MaxTasks, userId \in Holders : StartAnalyze(i, userId)
    \/ \E i \in 1..MaxTasks : InitializeTrain(i)
    \/ \E i \in 1..MaxTasks, percentile \in ThresholdOutcomes :
           InitializeFitted(i, percentile)
    \/ \E i \in 1..MaxTasks : InitializeFitRejected(i)
    \/ \E i \in 1..MaxTasks : InitializePerUser(i)
    \/ \E i \in 1..MaxTasks : TaskDetect(i)
    \/ \E i \in 1..MaxTasks : ClassifyExisting(i)
    \/ \E i \in 1..MaxTasks, trainOk \in BOOLEAN : LazyTrain(i, trainOk)
    \/ \E i \in 1..MaxTasks : LazyInstall(i)
    \/ \E i \in 1..MaxTasks : TaskPredicted(i)
    \/ \E i \in 1..MaxTasks : TaskPredictRejected(i)
    \/ \E t \in TxPool : CreateTransaction(t)

\* the table holds the first transaction of the pool; the others arrive later
InitAsync ==
    /\ InitEngine
    /\ storage_transactions =
           RowsOf({ t \in TxPool : \A u \in TxPool : t.id <= u.id })
    /\ storage_accounts = OwnAccounts

SpecAsync == InitAsync /\ [][NextAsync]_vars

-----------------------------------------------------------------------------
(* MLService and the routes that call it, one request at a time.  A call    *)
(* made while isInitialized is false first runs initialize(), modelled as   *)
(* the step MLInitialize; the steps of the routes are those of a service    *)
(* that is initialized.                                                     *)

\* x >= y; every comparison with NaN is false
FGreaterEq(x, y) == FGreater(x, y) \/ (IsFinite(x) /\ x = y)

\* the alert MLService.analyzeTransaction creates
ServiceAlert(userId, transaction, suspiciousScore) ==
    [userId |-> userId, transactionId |-> transaction.id,
     alertType |-> "suspicious_transaction",
     severity |-> IF FGreaterEq(suspiciousScore, Num(90)) THEN "high" ELSE "medium",
     title |-> "Suspicious Transaction Detected"]

\* the alert POST /api/transactions/analyze creates
RouteAlert(userId, transaction) ==
    [userId |-> userId, transactionId |-> transaction.id,
     alertType |-> "suspicious_transaction", severity |-> "high",
     title |-> "High Risk Transaction Detected"]

\* lines 566-577: the alert is created if result.isAnomaly, and the result of
\* the engine is returned
Assessed(r, userId, transaction) ==
    [result |-> [f \in DOMAIN r \ {"userClassifiers"} |-> r[f]],
     userClassifiers |-> r.userClassifiers,
     alerts |->
         IF r.outcome = "ok" /\ r.isAnomaly
         THEN Append(storage_alerts,
                     ServiceAlert(userId, transaction, r.suspiciousScore))
         ELSE storage_alerts]

\* the same with the alert created for every assessment
Assessed_alerting(r, userId, transaction) ==
    [result |-> [f \in DOMAIN r \ {"userClassifiers"} |-> r[f]],
     userClassifiers |-> r.userClassifiers,
     alerts |->
         IF r.outcome = "ok"
         THEN Append(storage_alerts,
                     ServiceAlert(userId, transaction, r.suspiciousScore))
         ELSE storage_alerts]

\* analyzeTransaction that creates the alert for every assessment it returns
MLService_analyzeTransaction_alerting(transaction, userId, historicalTransactions, modelError, prediction) ==
    Assessed_alerting(
        FraudDetectionService_analyzeTransaction(
            transaction, userId, historicalTransactions, modelError, prediction),
        userId, transaction)

\* MLService.analyzeTransaction(transaction, userId) of an initialized service,
\* historicalTransactions being what storage.getTransactionsByUserId(userId)
\* has returned to it
MLService_analyzeTransaction(transaction, userId, historicalTransactions, modelError, prediction) ==
    Assessed(
        FraudDetectionService_analyzeTransaction(
            transaction, userId, historicalTransactions, modelError, prediction),
        userId, transaction)

\* updateTransaction that writes the row anew from the update, the amount
\* falling back to 0
updateTransaction_rewriting(rows, id, updates) ==
    IF id \notin DOMAIN rows THEN rows
    ELSE [rows EXCEPT ![id] =
             [f \in DOMAIN @ |->
                 IF f \in DOMAIN updates THEN updates[f]
                 ELSE IF f = "amount" THEN 0 ELSE @[f]]]

\* storage.updateTransaction(id, updates): Object.assign(transaction, updates)
updateTransaction(rows, id, updates) ==
    IF id \notin DOMAIN rows THEN rows
    ELSE [rows EXCEPT ![id] =
             [f \in DOMAIN @ |-> IF f \in DOMAIN updates THEN updates[f] ELSE @[f]]]

\* MLService.initialize()
MLInitialize(percentile) ==
    LET r == FraudDetectionService_initialize(getAllTransactions, percentile)
    IN  /\ Idle
        /\ ~isInitialized
        /\ model' = r.model
        /\ threshold' = r.threshold
        /\ userProfiles' = r.userProfiles
        /\ userClassifiers' = r.userClassifiers
        /\ trainReturned' = (trainReturned \/ r.outcome = "ok")
        /\ isInitialized' = (r.outcome = "ok")
        /\ last' = [op |-> "MLService.initialize", outcome |-> r.outcome]
        /\ UNCHANGED <<variant, calls, tasks, storage_transactions, storage_alerts,
                       appVars>>

\* GET /api/transactions, for one row of the holder whose suspiciousScore is 0
GetTransactions(userId, id, historicalTransactions, modelError, prediction) ==
    /\ Idle
    /\ isInitialized
    /\ calls < MaxRequests
    /\ calls' = calls + 1
    /\ getAccount(storage_transactions[id].accountId).userId = userId
    /\ storage_transactions[id].suspiciousScore = Num(0)
    /\ \E a \in {MLService_analyzeTransaction(
                     storage_transactions[id], userId, historicalTransactions,
                     modelError, prediction)} :
           /\ userClassifiers' = a.userClassifiers
           /\ storage_alerts' = a.alerts
           /\ storage_transactions' =
                  IF a.result.outcome = "ok"
                  THEN updateTransaction(
                           storage_transactions, id,
                           [suspiciousScore |-> a.result.suspiciousScore,
                            isFlagged |-> a.result.isAnomaly])
                  ELSE storage_transactions
           /\ last' = [op |-> "GET /api/transactions", userId |-> userId,
                       transaction |-> storage_transactions[id],
                       historicalTransactions |-> historicalTransactions,
                       analysis |-> a.result,
                       status |-> IF a.result.outcome = "ok" THEN 200 ELSE 500]
    /\ UNCHANGED <<variant, model, threshold, userProfiles, trainReturned,
                   isInitialized, tasks,
                   appVars>>

\* POST /api/transactions/analyze with the transaction of the request body,
\* answered with 403 unless the holder owns the transaction's account
PostAnalyze(userId, transaction, historicalTransactions, modelError, prediction) ==
    /\ Idle
    /\ isInitialized
    /\ calls < MaxRequests
    /\ calls' = calls + 1
    /\ IF getAccount(transaction.accountId).userId # userId
       THEN /\ last' = [op |-> "POST /api/transactions/analyze", userId |-> userId,
                        transaction |-> transaction,
                        historicalTransactions |-> historicalTransactions,
                        analysis |-> [outcome |-> "none"], status |-> 403]
            /\ UNCHANGED <<userClassifiers, storage_alerts>>
       ELSE \E a \in {MLService_analyzeTransaction(
                          transaction, userId, historicalTransactions,
                          modelError, prediction)} :
                /\ userClassifiers' = a.userClassifiers
                /\ storage_alerts' =
                       IF a.result.outcome = "ok"
                          /\ FGreater(a.result.suspiciousScore, Num(90))
                       THEN Append(a.alerts, RouteAlert(userId, transaction))
                       ELSE a.alerts
                /\ last' = [op |-> "POST /api/transactions/analyze",
                            userId |-> userId, transaction |-> transaction,
                            historicalTransactions |-> historicalTransactions,
                            analysis |-> a.result,
                            status |-> IF a.result.outcome = "ok" THEN 200 ELSE 500]
    /\ UNCHANGED <<variant, model, threshold, userProfiles, trainReturned,
                   isInitialized, tasks, storage_transactions,
                   appVars>>

\* the review statuses a request can carry
ReviewStatuses == {"pending", "approved", "blocked"}

\* PATCH /api/transactions/:transactionId/review.  With a boolean isFraudulent
\* the handler calls mlService.updateModels, which MLService does not define:
\* the TypeError is caught and answered with 500 before anything is stored
ReviewTransaction(userId, id, reviewStatus, isFraudulent) ==
    LET found == id \in DOMAIN storage_transactions
        status ==
            IF ~found THEN 403
            ELSE IF getAccount(storage_transactions[id].accountId).userId # userId
                 THEN 403
            ELSE IF reviewStatus \notin ReviewStatuses THEN 400
            ELSE IF isFraudulent \in {"true", "false"} THEN 500
            ELSE 200
    IN  /\ Idle
        /\ calls < MaxRequests
        /\ calls' = calls + 1
        /\ storage_transactions' =
               IF status = 200
               THEN updateTransaction(storage_transactions, id,
                                      [reviewStatus |-> reviewStatus,
                                       isFlagged |-> FALSE])
               ELSE storage_transactions
        /\ last' = [op |-> "PATCH /api/transactions/review", userId |-> userId,
                    id |-> id, reviewStatus |-> reviewStatus,
                    isFraudulent |-> isFraudulent, status |-> status]
        /\ UNCHANGED <<variant, model, threshold, userProfiles, userClassifiers,
                       trainReturned, isInitialized, tasks, storage_alerts,
                       appVars>>

\* a transaction of the second holder unlike the stored ones
Unusual == Tx(5, 2, 200, "Casino", "Gambling", 50, FALSE)

\* the transactions a request body can carry
PostedTransactions == TxPool \cup {Unusual}

NextML ==
    \/ \E percentile \in ThresholdOutcomes : MLInitialize(percentile)
    \/ \E userId \in Holders, id \in DOMAIN storage_transactions,
          modelError \in ErrorChoices :
           \E historicalTransactions \in {getTransactionsByUserId(userId)} :
               \E prediction \in
                      PredictOutcomes(ClassifierFor(userId, historicalTransactions)) :
                   GetTransactions(userId, id, historicalTransactions,
                                   modelError, prediction)
    \/ \E userId \in Holders, transaction \in PostedTransactions,
          modelError \in ErrorChoices :
           \E historicalTransactions \in {getTransactionsByUserId(userId)} :
               \E prediction \in
                      PredictOutcomes(ClassifierFor(userId, historicalTransactions)) :
                   PostAnalyze(userId, transaction, historicalTransactions,
                               modelError, prediction)
    \/ \E userId \in Holders, id \in { t.id : t \in TxPool },
          reviewStatus \in ReviewStatuses \cup {"other"},
          isFraudulent \in {"true", "false", "undefined"} :
           ReviewTransaction(userId, id, reviewStatus, isFraudulent)
    \/ \E t \in TxPool : CreateTransaction(t)
    \/ Return

\* the table holds the first transactions of the pool; the others arrive
\* later.  Each holder owns the account with the holder's id
InitML ==
    /\ InitEngine
    /\ storage_transactions = RowsOf(Range(SubSeq(ById(TxPool), 1, MaxHist)))
    /\ storage_accounts = OwnAccounts

SpecML == InitML /\ [][NextML]_vars

-----------------------------------------------------------------------------
(* MLService behind POST /api/transactions/analyze, the holders owning the  *)
(* account with their own id or the first holder owning both accounts       *)

NextHolders ==
    \/ \E percentile \in ThresholdOutcomes : MLInitialize(percentile)
    \/ \E userId \in Holders, transaction \in PostedTransactions,
          modelError \in ErrorChoices :
           \E historicalTransactions \in {getTransactionsByUserId(userId)} :
               \E prediction \in
                      PredictOutcomes(ClassifierFor(userId, historicalTransactions)) :
                   PostAnalyze(userId, transaction, historicalTransactions,
                               modelError, prediction)
    \/ Return

InitHolders ==
    /\ InitEngine
    /\ storage_transactions = RowsOf(TxPool)
    /\ storage_accounts \in AccountTables

SpecHolders == InitHolders /\ [][NextHolders]_vars

-----------------------------------------------------------------------------
(* The login rate limiter *)

NextLogin ==
    \/ \E identifier \in Identifiers : CheckLoginAttempts(identifier)
    \/ \E identifier \in Identifiers : ResetLoginAttempts(identifier)
    \/ \E d \in {1, LOGIN_LOCKOUT_TIME} : Tick(d)

SpecLogin == Init /\ [][NextLogin]_vars

-----------------------------------------------------------------------------
(* POST /sync-transactions/:accountId: requests in flight together.  A       *)
(* handler runs from one await to the next.  The awaits of the storage are   *)
(* of promises already resolved: the handler is resumed as a continuation,  *)
(* before the runtime takes the next network completion.  The await of the  *)
(* Yodlee request is resumed by the completion of that request.             *)

\* a Yodlee response holds at most MaxYodlee transactions
MaxYodlee == 2

\* the transactions Yodlee reports: one of them also with a changed amount
YodleeTransactions ==
    { [id |-> "y1", amount |-> 10, status |-> "PENDING"],
      [id |-> "y1", amount |-> 12, status |-> "POSTED"],
      [id |-> "y2", amount |-> 5, status |-> "POSTED"] }

\* the responses of yodleeClient.getTransactions
YodleeResponses ==
    UNION { [1..n -> YodleeTransactions] : n \in 0..MaxYodlee }

\* the lookup that finds nothing
getTransactionByYodleeId_missing(rows, yodleeId) == {}

\* storage.getTransactionByYodleeId(yodleeId): the ids of the rows found (the
\* code takes the first)
getTransactionByYodleeId(rows, yodleeId) ==
    { i \in DOMAIN rows : rows[i].yodleeTransactionId = yodleeId }

\* {...convertYodleeTransaction(yodleeTx, accountId), yodleeTransactionId:
\* yodleeTx.id, yodleeStatus: yodleeTx.status}, of which the amount, the
\* status and the columns the engine writes are kept
transactionData(yodleeTx, accountId) ==
    [accountId |-> accountId, amount |-> yodleeTx.amount,
     suspiciousScore |-> Num(0), isFlagged |-> FALSE, reviewStatus |-> "pending",
     yodleeTransactionId |-> yodleeTx.id, yodleeStatus |-> yodleeTx.status]

\* storage.createTransaction(insertTransaction): id = this.currentId++, which
\* is one more than the number of rows where only transactions are created,
\* starting from the empty storage
createTransaction(rows, insertTransaction) ==
    LET id == Cardinality(DOMAIN rows) + 1
    IN  [i \in DOMAIN rows \cup {id} |->
            IF i = id
            THEN [f \in DOMAIN insertTransaction \cup {"id"} |->
                     IF f = "id" THEN id ELSE insertTransaction[f]]
            ELSE rows[i]]

\* some handler is waiting to be resumed as a continuation
Continuing ==
    \E j \in 1..MaxTasks : tasks[j].pc \in {"account", "lookup", "created", "respond"}

\* the request arrives: the handler runs to its await of storage.getAccount
StartSync(i, userId, accountId) ==
    /\ tasks[i] = NoTask
    /\ tasks' = [tasks EXCEPT ![i] =
                    [pc |-> "account", userId |-> userId, accountId |-> accountId,
                     yodleeTransactions |-> << >>, rest |-> << >>,
                     existingTx |-> {}, status |-> 0]]
    /\ UNCHANGED <<engineVars, serviceVars, last, appVars>>

\* 403 unless the user owns the account; otherwise the handler calls
\* yodleeClient.getTransactions and awaits the response
SyncFetch(i) ==
    /\ tasks[i].pc = "account"
    /\ tasks' = IF getAccount(tasks[i].accountId).userId # tasks[i].userId
                THEN [tasks EXCEPT ![i].pc = "done", ![i].status = 403]
                ELSE [tasks EXCEPT ![i].pc = "fetching"]
    /\ UNCHANGED <<engineVars, serviceVars, last, appVars>>

\* the loop goes to its next transaction: it calls getTransactionByYodleeId,
\* whose body runs at the call, and awaits it; after the last transaction it
\* awaits storage.getRecentTransactions
Looking(task, rows, rest) ==
    IF rest = << >>
    THEN [task EXCEPT !.pc = "respond", !.rest = rest, !.existingTx = {}]
    ELSE [task EXCEPT !.pc = "lookup", !.rest = rest,
                      !.existingTx = getTransactionByYodleeId(rows, Head(rest).id)]

\* the Yodlee request completes, which the runtime takes when no continuation
\* is waiting, and the handler enters its loop
YodleeResponds(i, yodleeTransactions) ==
    /\ tasks[i].pc = "fetching"
    /\ ~Continuing
    /\ tasks' = [tasks EXCEPT ![i] =
                    Looking([tasks[i] EXCEPT !.yodleeTransactions = yodleeTransactions],
                            storage_transactions, yodleeTransactions)]
    /\ UNCHANGED <<engineVars, serviceVars, last, appVars>>

\* the lookup is back: if (!existingTx) the handler calls createTransaction,
\* whose body runs at the call, and awaits it; otherwise it goes on
SyncLookedUp(i) ==
    /\ tasks[i].pc = "lookup"
    /\ IF tasks[i].existingTx = {}
       THEN /\ storage_transactions' =
                   createTransaction(storage_transactions,
                                     transactionData(Head(tasks[i].rest),
                                                     tasks[i].accountId))
            /\ tasks' = [tasks EXCEPT ![i].pc = "created"]
       ELSE /\ tasks' = [tasks EXCEPT ![i] =
                            Looking(tasks[i], storage_transactions,
                                    Tail(tasks[i].rest))]
            /\ UNCHANGED storage_transactions
    /\ UNCHANGED <<engineVars, isInitialized, storage_alerts, last, appVars>>

\* createTransaction is back: the loop goes on
SyncCreated(i) ==
    /\ tasks[i].pc = "created"
    /\ tasks' = [tasks EXCEPT ![i] =
                    Looking(tasks[i], storage_transactions, Tail(tasks[i].rest))]
    /\ UNCHANGED <<engineVars, serviceVars, last, appVars>>

\* res.json(updatedTransactions)
SyncRespond(i) ==
    /\ tasks[i].pc = "respond"
    /\ tasks' = [tasks EXCEPT ![i].pc = "done", ![i].status = 200]
    /\ UNCHANGED <<engineVars, serviceVars, last, appVars>>

NextSync ==
    \/ \E i \in 1..MaxTasks, userId \in Holders, accountId \in Holders :
           StartSync(i, userId, accountId)
    \/ \E i \in 1..MaxTasks : SyncFetch(i)
    \/ \E i \in 1..MaxTasks, yodleeTransactions \in YodleeResponses :
           YodleeResponds(i, yodleeTransactions)
    \/ \E i \in 1..MaxTasks : SyncLookedUp(i)
    \/ \E i \in 1..MaxTasks : SyncCreated(i)
    \/ \E i \in 1..MaxTasks : SyncRespond(i)

\* the storage as constructed: no transaction
InitSync ==
    /\ InitEngine
    /\ storage_transactions = << >>
    /\ storage_accounts = OwnAccounts

SpecSync == InitSync /\ [][NextSync]_vars

-----------------------------------------------------------------------------
(* Magic links: verifications in flight together *)

NextMagicLink ==
    \/ \E token \in Tokens, type \in {"magic_link", "email_verification"},
          userId \in Holders :
           CreateAuthToken(token, type, userId)
    \/ \E i \in 1..MaxTasks, token \in Tokens : VerifyStart(i, token)
    \/ \E i \in 1..MaxTasks : VerifyCheck(i)
    \/ \E i \in 1..MaxTasks : VerifyReturn(i)
    \/ \E d \in {1, LOGIN_LOCKOUT_TIME} : Tick(d)

SpecMagicLink == Init /\ [][NextMagicLink]_vars

-----------------------------------------------------------------------------
(* Properties of the AnomalyDetector *)

\* x is an integer between lo and hi
IsIntegerIn(x, lo, hi) == IsFinite(x) /\ x.den = 1 /\ lo <= x.num /\ x.num <= hi

\* every row of the feature matrix is the same: no feature varies
ZeroVariance(rows) == \A i, j \in DOMAIN rows : rows[i] = rows[j]

\* C4: for a trained detector, every non-negative reconstruction error and
\* every number train stored as threshold (0 included), detectAnomaly returns
\* an integer score in [0,100], and isAnomaly is true exactly when score > 70
C4_ScoreIntegerInRange ==
    (/\ last.op = "detectAnomaly"
     /\ last.result.outcome = "ok"
     /\ trainReturned
     /\ IsFinite(threshold)
     /\ IsFinite(last.result.errorValue))
    => /\ IsIntegerIn(last.result.score, 0, 100)
       /\ last.result.isAnomaly = (last.result.score.num > 70)

\* C6: train on an empty list, or on a feature set in which nothing varies,
\* fails and installs neither model nor threshold, so the detector is as
\* untrained as before
C6_DegenerateTrainFails ==
    [][(/\ Idle
        /\ last'.op = "train"
        /\ ZeroVariance(TrainingFeatures(last'.transactions)))
       => (/\ last'.outcome = "error"
           /\ model' = model
           /\ threshold' = threshold)]_vars

-----------------------------------------------------------------------------
(* Properties of the BehavioralProfiler *)

Indicator(b) == IF b THEN 1 ELSE 0

\* |amount| > 2 * averageAmount, over the integers
ExceedsTwice(transaction, profile) ==
    Abs(transaction.amount) * profile.averageAmount.den
        > 2 * profile.averageAmount.num

\* |amount| = 2 * averageAmount, over the integers
ExactlyTwice(transaction, profile) ==
    Abs(transaction.amount) * profile.averageAmount.den
        = 2 * profile.averageAmount.num

\* C7: analyzeTransaction returns 0 for a holder without profile; otherwise
\* 20 for a new hour + 15 for a new merchant + 10 for a new category + 25 for
\* an amount strictly above twice the average, capped at 100; an amount of
\* exactly twice the average adds nothing; the result is an integer in [0,100]
C7_BehavioralScore ==
    last.op = "profileTransaction" =>
        LET profile == userProfiles[last.userId]
            transaction == last.transaction
            sum == 20 * Indicator(HourOf(transaction) \notin profile.typicalDayHours)
                 + 15 * Indicator(transaction.merchant \notin profile.typicalMerchants)
                 + 10 * Indicator(transaction.category \notin profile.typicalCategories)
                 + 25 * Indicator(ExceedsTwice(transaction, profile))
        IN  /\ last.result \in 0..100
            /\ profile = NoProfile => last.result = 0
            /\ profile # NoProfile =>
                   /\ IsFinite(profile.averageAmount)
                   /\ last.result = (IF sum < 100 THEN sum ELSE 100)

\* a transaction of exactly twice the average amount, at a known hour,
\* merchant and category, was scored 0
C7_Witness ==
    /\ last.op = "profileTransaction"
    /\ userProfiles[last.userId] # NoProfile
    /\ ExactlyTwice(last.transaction, userProfiles[last.userId])
    /\ last.result = 0

\* the profile of a list, computed with no earlier profile present
ProfileOf(userId, transactions) ==
    BehavioralProfiler_updateProfile([h \in Holders |-> NoProfile], userId,
                                     transactions).userProfiles[userId]

\* C9: a returning updateProfile(holder, txs) stores a profile that is a
\* function of txs alone, whatever profile the holder had; repeating the call
\* changes nothing; the profiles of the other holders stay as they were
C9_UpdateProfileIdempotent ==
    [][(/\ Idle
        /\ last'.op = "updateProfile"
        /\ last'.outcome = "ok")
       => (/\ userProfiles'[last'.userId]
                  = ProfileOf(last'.userId, last'.transactions)
           /\ BehavioralProfiler_updateProfile(
                  userProfiles', last'.userId, last'.transactions).userProfiles
                  = userProfiles'
           /\ \A h \in Holders \ {last'.userId} :
                  userProfiles'[h] = userProfiles[h])]_vars

\* updateProfile returned for a holder while every holder had a profile, and
\* the holders' profiles differ
C9_Witness ==
    /\ last.op = "updateProfile"
    /\ last.outcome = "ok"
    /\ \A h \in Holders : userProfiles[h] # NoProfile
    /\ \E g, h \in Holders :
           userProfiles[g].typicalMerchants # userProfiles[h].typicalMerchants

-----------------------------------------------------------------------------
(* Properties of the RandomForestClassifier *)

\* no training over a non-empty list has completed on the classifier
Untrained(c) ==
    /\ c # NoClassifier
    /\ IF c.impl = "ml-random-forest" THEN c.model = NoForest
       ELSE c.model.fits = << >>

\* every answer predict can give for the classifier is exactly 0
PredictsZero(c) ==
    \A transaction \in TxPool, historicalTransactions \in TxLists,
       prediction \in PredictOutcomes(c) :
        RandomForestClassifier_predict(c, transaction, historicalTransactions,
                                       prediction) = Num(0)

\* the classifier a fresh train(history ++ [tx], flags ++ [isActuallyFraud])
\* produces
FreshTrain(userId, transaction, isActuallyFraud, historicalTransactions) ==
    RandomForestClassifier_train(
        NewClassifier(variant, userId).classifier,
        Append(historicalTransactions, transaction),
        Append(Flags(historicalTransactions), isActuallyFraud)).classifier

\* C8: a holder's classifier on which no training over a non-empty list has
\* completed, the newly constructed one first of all, returns exactly 0 from
\* predict for every transaction and history; train on an empty list raises
\* no error and leaves the classifier as it was
C8_ColdStartZero ==
    [][/\ (Idle /\ last'.op = "construct")
          => (/\ Untrained(userClassifiers'[last'.userId])
              /\ PredictsZero(userClassifiers'[last'.userId]))
       /\ (/\ Idle
           /\ last'.op = "predict"
           /\ Untrained(userClassifiers[last'.userId]))
          => last'.result = Num(0)
       /\ (/\ Idle
           /\ last'.op = "classifierTrain"
           /\ last'.transactions = << >>)
          => (/\ last'.outcome = "ok"
              /\ userClassifiers' = userClassifiers)]_vars

\* C10: updateModel(tx, isActuallyFraud, history) leaves a holder's
\* classifier, from the newly constructed one onwards and whatever it was
\* before the call, as a fresh train on history ++ [tx] with the history's
\* flags ++ [isActuallyFraud] leaves it
C10_UpdateModelIsFreshTrain ==
    [][/\ (Idle /\ last'.op = "construct")
          => (/\ userClassifiers'[last'.userId] # NoClassifier
              /\ \A transaction \in TxPool, isActuallyFraud \in BOOLEAN,
                    historicalTransactions \in TxLists :
                     RandomForestClassifier_updateModel(
                         userClassifiers'[last'.userId], transaction,
                         isActuallyFraud, historicalTransactions).classifier
                         = FreshTrain(last'.userId, transaction, isActuallyFraud,
                                      historicalTransactions))
       /\ (Idle /\ last'.op = "updateModel")
          => userClassifiers'[last'.userId]
                 = FreshTrain(last'.userId, last'.transaction,
                              last'.isActuallyFraud,
                              last'.historicalTransactions)]_vars

-----------------------------------------------------------------------------
(* Properties of the FraudDetectionService *)

NotTrained == [outcome |-> "error", error |-> "Model not trained"]

\* the numerator and the denominator of 0.4*a + 0.3*b + 0.3*c for finite
\* numbers a and c and an integer b
FusedNum(a, b, c) == 4 * a.num * c.den + 3 * b * a.den * c.den + 3 * c.num * a.den
FusedDen(a, c) == 10 * a.den * c.den

\* s is the integer nearest to 0.4*a + 0.3*b + 0.3*c, a tie going up; it is
\* NaN when a component is
IsFusionOf(s, a, b, c) ==
    IF IsFinite(a) /\ IsFinite(c)
    THEN /\ IsFinite(s)
         /\ s.den = 1
         /\ (2 * s.num - 1) * FusedDen(a, c) <= 2 * FusedNum(a, b, c)
         /\ 2 * FusedNum(a, b, c) < (2 * s.num + 1) * FusedDen(a, c)
    ELSE IsNaN(s)

\* C1: the suspiciousScore of an assessment is round(0.4*anomalyScore +
\* 0.3*behavioralScore + 0.3*classifierScore) of the component scores the
\* same assessment reports, and isAnomaly is true exactly when it exceeds 70;
\* 80/60/40 fuse to 62 (no anomaly), 95/90/90 to 92 (anomaly)
C1_FusionFormula ==
    /\ CombinedScore(Num(80), Num(60), Num(40)) = Num(62)
    /\ CombinedScore(Num(95), Num(90), Num(90)) = Num(92)
    /\ (last.op = "analyzeTransaction" /\ last.result.outcome = "ok") =>
           LET r == last.result
           IN  /\ IsFusionOf(r.suspiciousScore, r.anomalyScore, r.behavioralScore,
                             r.classifierScore)
               /\ r.isAnomaly = (/\ IsFinite(r.suspiciousScore)
                                 /\ r.suspiciousScore.num > 70 * r.suspiciousScore.den)

\* an assessment flagged as anomaly whose weighted sum lay exactly half way
\* between two integers
C1_Witness ==
    /\ last.op = "analyzeTransaction"
    /\ last.result.outcome = "ok"
    /\ last.result.isAnomaly
    /\ IsFinite(last.result.anomalyScore)
    /\ IsFinite(last.result.classifierScore)
    /\ 2 * FusedNum(last.result.anomalyScore, last.result.behavioralScore,
                    last.result.classifierScore)
           = (2 * last.result.suspiciousScore.num - 1)
               * FusedDen(last.result.anomalyScore, last.result.classifierScore)

\* C2: whenever analyzeTransaction returns an assessment, its suspiciousScore
\* is an integer in [0,100]
C2_SuspiciousScoreInRange ==
    (last.op = "analyzeTransaction" /\ last.result.outcome = "ok") =>
        IsIntegerIn(last.result.suspiciousScore, 0, 100)

\* C3: in the end-to-end scenario the assessment of the candidate has a
\* behavioralScore of at least 70, a suspiciousScore above 70 and isAnomaly
\* true
C3_ScenarioFlagged ==
    (/\ last.op = "analyzeTransaction"
     /\ last.result.outcome = "ok"
     /\ userProfiles[ScenarioHolder] = ProfileOf(ScenarioHolder, GroceryHistory)
     /\ last.transaction = Candidate)
    => /\ last.result.behavioralScore >= 70
       /\ IsFinite(last.result.suspiciousScore)
       /\ last.result.suspiciousScore.num > 70 * last.result.suspiciousScore.den
       /\ last.result.isAnomaly

-----------------------------------------------------------------------------
(* Properties of the service's state *)

\* C13: only initialize (through train) writes the AnomalyDetector's model or
\* threshold; analyzeTransaction and updateModels leave both as they are, and
\* no call takes a detector that has a model back to having none
C13_DetectorStaysTrained ==
    [][/\ (model' # model \/ threshold' # threshold) => last'.op = "initialize"
       /\ (Idle /\ last'.op \in {"analyzeTransaction", "updateModels"})
              => (model' = model /\ threshold' = threshold)
       /\ model # NoModel => model' # NoModel]_vars

\* updateModels has run on a service whose detector is trained
C13_Witness ==
    /\ last.op = "updateModels"
    /\ model # NoModel
    /\ trainReturned

\* C14: updateModels(tx, holder, label, history) stores for the holder the
\* profile of history ++ [tx]; the holder's classifier is the result of its
\* updateModel if the holder had one and is still absent if not; the profiles
\* and classifiers of the other holders are unchanged
C14_UpdateModelsFrame ==
    [][(Idle /\ last'.op = "updateModels")
       => LET u == last'.userId
              hist == last'.historicalTransactions
          IN  /\ userProfiles'[u] = ProfileOf(u, Append(hist, last'.transaction))
              /\ userClassifiers[u] = NoClassifier
                     => userClassifiers'[u] = NoClassifier
              /\ userClassifiers[u] # NoClassifier
                     => userClassifiers'[u]
                            = RandomForestClassifier_updateModel(
                                  userClassifiers[u], last'.transaction,
                                  last'.isActuallyFraud, hist).classifier
              /\ \A h \in Holders \ {u} :
                     /\ userProfiles'[h] = userProfiles[h]
                     /\ userClassifiers'[h] = userClassifiers[h]]_vars

\* updateModels has run for a holder that had a classifier while another
\* holder had a profile and a classifier of its own
C14_Witness ==
    /\ last.op = "updateModels"
    /\ userClassifiers[last.userId] # NoClassifier
    /\ \E h \in Holders \ {last.userId} :
           userProfiles[h] # NoProfile /\ userClassifiers[h] # NoClassifier

-----------------------------------------------------------------------------
(* Properties of calls in flight together *)

\* the calls that have been made
Made == { i \in 1..MaxTasks : tasks[i].pc # "idle" }

\* the call has found the holder without a classifier and has not yet set the
\* one it constructed
Replacing(i) == tasks[i].pc = "lazyTrained"

\* C15: an analyzeTransaction call that has failed, at whatever step, has
\* written nothing to the holder-to-classifier map: the classifier it
\* constructed is installed only by a call that goes on to succeed
C15_FailedCallInstallsNothing ==
    \A i \in Made : tasks[i].pc = "failed" => ~tasks[i].installed

\* C16: two calls for one holder are never both between reading the holder's
\* classifier and replacing it, and never both install a classifier they
\* constructed
C16_HolderCallsExclusive ==
    \A i, j \in Made :
        (i # j /\ tasks[i].userId = tasks[j].userId)
            => /\ ~(Replacing(i) /\ Replacing(j))
               /\ ~(tasks[i].installed /\ tasks[j].installed)

\* C17: however the calls interleave, FraudDetectionService.initialize is
\* started by at most one of them, and a call made after isInitialized was
\* set does not start it
C17_InitializeStartedOnce ==
    /\ Cardinality({ i \in Made : tasks[i].startedInitialize }) <= 1
    /\ \A i \in Made : tasks[i].afterInitialized => ~tasks[i].startedInitialize

\* C18: no detectAnomaly reads a model whose fitting has not finished
C18_ModelSlotAllOrNothing ==
    \A i \in Made : tasks[i].saw # "unfinished"

-----------------------------------------------------------------------------
(* Properties of MLService and the routes *)

\* the columns the engine and the reviewer write
Mutable == {"suspiciousScore", "isFlagged", "reviewStatus"}

\* C19: whatever request is served, every stored transaction stays stored with
\* the same columns, each column outside suspiciousScore, isFlagged and
\* reviewStatus keeps its value, and reviewStatus is pending, approved or
\* blocked
C19_OnlyAnalysisFieldsChange ==
    [][\A id \in DOMAIN storage_transactions :
           /\ id \in DOMAIN storage_transactions'
           /\ DOMAIN storage_transactions'[id] = DOMAIN storage_transactions[id]
           /\ \A f \in DOMAIN storage_transactions[id] \ Mutable :
                  storage_transactions'[id][f] = storage_transactions[id][f]
           /\ storage_transactions[id].reviewStatus \in ReviewStatuses
           /\ storage_transactions'[id].reviewStatus \in ReviewStatuses]_vars

\* a review has been stored for a row after another row was given a score
C19_Witness ==
    /\ last.op = "PATCH /api/transactions/review"
    /\ last.status = 200
    /\ storage_transactions[last.id].reviewStatus = "blocked"
    /\ \E id \in DOMAIN storage_transactions :
           storage_transactions[id].suspiciousScore # Num(0)

\* the alerts the step has added to the storage
NewAlerts == SubSeq(storage_alerts', Len(storage_alerts) + 1, Len(storage_alerts'))

\* C20: a request that has MLService.analyzeTransaction return an assessment
\* adds the service's alert for the transaction exactly if isAnomaly is true,
\* with severity high for a suspiciousScore of 90 or more and medium below;
\* of the callers only POST /api/transactions/analyze adds an alert of its own
C20_AlertIffAnomaly ==
    [][(/\ Idle
        /\ last'.op \in {"GET /api/transactions", "POST /api/transactions/analyze"}
        /\ last'.status = 200)
       => LET r == last'.analysis
              expected ==
                  [userId |-> last'.userId,
                   transactionId |-> last'.transaction.id,
                   alertType |-> "suspicious_transaction",
                   severity |-> IF r.suspiciousScore.num >= 90 * r.suspiciousScore.den
                                THEN "high" ELSE "medium",
                   title |-> "Suspicious Transaction Detected"]
          IN  /\ r.isAnomaly => (NewAlerts # << >> /\ Head(NewAlerts) = expected)
              /\ ~r.isAnomaly => NewAlerts = << >>
              /\ \A k \in 2..Len(NewAlerts) :
                     /\ last'.op = "POST /api/transactions/analyze"
                     /\ NewAlerts[k].title # expected.title]_vars

\* the service has created a medium and a high alert
C20_Witness ==
    /\ last.op \in {"GET /api/transactions", "POST /api/transactions/analyze"}
    /\ last.status = 200
    /\ last.analysis.isAnomaly
    /\ \E j, k \in 1..Len(storage_alerts) :
           /\ storage_alerts[j].title = "Suspicious Transaction Detected"
           /\ storage_alerts[j].severity = "medium"
           /\ storage_alerts[k].title = "Suspicious Transaction Detected"
           /\ storage_alerts[k].severity = "high"

-----------------------------------------------------------------------------
(* Properties of training *)

\* the transactions of the list dated strictly before t, in list order
StrictlyBefore(t, transactions) ==
    ById({ ht \in Range(transactions) : ht.transactionDate < t.transactionDate })

\* the rows the classifier's model was last trained on
LastTrainedRows(c) ==
    IF c.impl = "ml-random-forest" THEN c.model.X ELSE c.model.fits[Len(c.model.fits)].X

\* C21: during AnomalyDetector.train and Classifier.train the feature vector
\* of each transaction t of the list is computed against exactly the
\* transactions of that list dated strictly earlier than t: never t itself,
\* never one with t's timestamp or a later one, never the full list
C21_TrainUsesStrictlyEarlier ==
    /\ (last.op = "train" /\ last.outcome = "ok") =>
           /\ Len(model.fittedOn) = Len(last.transactions)
           /\ \A i \in 1..Len(last.transactions) :
                  model.fittedOn[i] =
                      extractTransactionFeatures(
                          last.transactions[i],
                          StrictlyBefore(last.transactions[i], last.transactions))
    /\ (last.op = "classifierTrain" /\ last.outcome = "ok"
            /\ last.transactions # << >>) =>
           LET rows == LastTrainedRows(userClassifiers[last.userId])
           IN  /\ Len(rows) = Len(last.transactions)
               /\ \A i \in 1..Len(rows) :
                      /\ rows[i].transaction = last.transactions[i]
                      /\ rows[i].historicalTransactions =
                             StrictlyBefore(last.transactions[i], last.transactions)
                      /\ \A ht \in Range(rows[i].historicalTransactions) :
                             /\ ht # last.transactions[i]
                             /\ ht.transactionDate < last.transactions[i].transactionDate

\* both models are trained, the classifier last, on a list holding two
\* transactions with the same timestamp
C21_Witness ==
    /\ model # NoModel
    /\ model.fittedOn # << >>
    /\ last.op = "classifierTrain"
    /\ last.outcome = "ok"
    /\ \E i, j \in 1..Len(last.transactions) :
           /\ i # j
           /\ last.transactions[i].transactionDate = last.transactions[j].transactionDate

-----------------------------------------------------------------------------
(* Properties of the history MLService reads *)

\* C22: every history that MLService.analyzeTransaction passes to
\* FraudDetectionService.analyzeTransaction holds only transactions dated
\* strictly earlier than the candidate: never the candidate itself, never a
\* later transaction
C22_HistoryStrictlyEarlier ==
    (/\ last.op \in {"GET /api/transactions", "POST /api/transactions/analyze"}
     /\ last.status # 403) =>
        \A ht \in Range(last.historicalTransactions) :
            /\ ht.id # last.transaction.id
            /\ ht.transactionDate < last.transaction.transactionDate

-----------------------------------------------------------------------------
(* Properties of the lazily created classifier *)

\* the classifier is one of the holder, trained on the list with the list's
\* isFlagged values as labels (on an empty list it stays without a model)
TrainedOnFlags(c, userId, transactions) ==
    /\ c # NoClassifier
    /\ c.userId = userId
    /\ IF transactions = << >>
       THEN Untrained(c)
       ELSE LET rows == LastTrainedRows(c)
            IN  /\ Len(rows) = Len(transactions)
                /\ Len(c.model.y) = Len(transactions)
                /\ \A i \in 1..Len(transactions) :
                       /\ rows[i].transaction = transactions[i]
                       /\ c.model.y[i] = transactions[i].isFlagged

\* C24: analyzeTransaction called for a holder with no classifier creates
\* one, trains it on the given history with the isFlagged values as labels
\* and installs it, so that after a successful call the holder has a
\* classifier; a holder that already has one keeps it, neither replaced nor
\* retrained
C24_LazyClassifier ==
    [][(Idle /\ last'.op = "analyzeTransaction")
       => LET u == last'.userId
          IN  /\ (userClassifiers[u] = NoClassifier
                     /\ last'.result.outcome = "ok")
                    => TrainedOnFlags(userClassifiers'[u], u,
                                      last'.historicalTransactions)
              /\ userClassifiers[u] # NoClassifier
                    => userClassifiers'[u] = userClassifiers[u]
              /\ \A h \in Holders \ {u} :
                     userClassifiers'[h] = userClassifiers[h]]_vars

\* a successful analyzeTransaction has installed a classifier trained on a
\* history that holds a flagged transaction and another holder's transaction
C24_Witness ==
    /\ last.op = "analyzeTransaction"
    /\ last.result.outcome = "ok"
    /\ last.historicalTransactions # << >>
    /\ TrainedOnFlags(userClassifiers[last.userId], last.userId,
                      last.historicalTransactions)
    /\ \E t \in Range(last.historicalTransactions) : t.isFlagged
    /\ \E t \in Range(last.historicalTransactions) : t.accountId # last.userId

-----------------------------------------------------------------------------
(* Properties of the two bootstrap paths *)

\* the list is not empty and holds transactions of the one account only
OnlyOf(accountId, transactions) ==
    /\ transactions # << >>
    /\ \A t \in Range(transactions) : t.accountId = accountId

-----------------------------------------------------------------------------
(* Properties of the review route *)

\* C26: when the owner reviews a transaction with a valid reviewStatus and a
\* boolean isFraudulent, the handler updates the holder's models with that
\* label through updateModels, then stores reviewStatus and isFlagged =
\* isFraudulent on the transaction and returns it; a review by a non-owner or
\* with an invalid reviewStatus changes neither the models nor the transaction
C26_ReviewFeedsModels ==
    [][(Idle /\ last'.op = "PATCH /api/transactions/review")
       => LET id == last'.id
              owner == /\ id \in DOMAIN storage_transactions
                       /\ getAccount(storage_transactions[id].accountId).userId
                              = last'.userId
              valid == last'.reviewStatus \in ReviewStatuses
              fed == FraudDetectionService_updateModels(
                         storage_transactions[id], last'.userId,
                         last'.isFraudulent = "true",
                         getTransactionsByUserId(last'.userId))
          IN  /\ (owner /\ valid /\ last'.isFraudulent \in {"true", "false"})
                    => /\ last'.status = 200
                       /\ userProfiles' = fed.userProfiles
                       /\ userClassifiers' = fed.userClassifiers
                       /\ storage_transactions'[id].reviewStatus = last'.reviewStatus
                       /\ storage_transactions'[id].isFlagged
                              = (last'.isFraudulent = "true")
              /\ (~owner \/ ~valid)
                    => /\ last'.status \in {400, 403}
                       /\ UNCHANGED <<storage_transactions, userProfiles,
                                      userClassifiers>>]_vars

-----------------------------------------------------------------------------
(* Properties of the analyze route *)

\* C29: handling one POST /api/transactions/analyze request creates at most
\* one alert for the analyzed transaction, whatever its suspiciousScore
C29_AtMostOneAlert ==
    [][(Idle /\ last'.op = "POST /api/transactions/analyze")
       => Len(storage_alerts') <= Len(storage_alerts) + 1]_vars

-----------------------------------------------------------------------------
(* Properties of the per-holder models initialize builds *)

\* the stored transactions of the accounts the holder owns, in corpus order
CorpusOf(userId) ==
    SelectSeq(getAllTransactions, LAMBDA t : getAccount(t.accountId).userId = userId)

\* C23: after initialize(corpus) completes the anomaly detector is trained
\* and, for every account holder owning at least one corpus transaction, a
\* profile and a trained classifier exist under that holder's identifier,
\* built from exactly that holder's transactions with their isFlagged values
\* as labels; a following analyzeTransaction for that holder uses them: no
\* cold-start behavioural score, no lazy classifier creation
C23_InitializeBuildsHolderModels ==
    [][/\ (Idle /\ last'.op = "MLService.initialize" /\ last'.outcome = "ok")
          => /\ model' # NoModel
             /\ \A h \in Holders :
                    CorpusOf(h) # << >>
                        => /\ userProfiles'[h] = ProfileOf(h, CorpusOf(h))
                           /\ TrainedOnFlags(userClassifiers'[h], h, CorpusOf(h))
       /\ (/\ Idle
           /\ last'.op = "POST /api/transactions/analyze"
           /\ last'.status = 200
           /\ CorpusOf(last'.userId) # << >>)
          => /\ userProfiles[last'.userId] # NoProfile
             /\ userClassifiers[last'.userId] # NoClassifier
             /\ userClassifiers' = userClassifiers]_vars

-----------------------------------------------------------------------------
(* Properties of the login rate limiter *)

\* the step is a checkLoginAttempts call for the identifier
ChecksLogin(identifier) ==
    /\ last'.op = "checkLoginAttempts"
    /\ last'.identifier = identifier
    /\ now' = now
    /\ (last' # last \/ loginAttempts' # loginAttempts \/ admitted' # admitted)

\* C28: for any identifier checkLoginAttempts admits at most
\* MAX_LOGIN_ATTEMPTS = 5 calls in a row without an intervening
\* resetLoginAttempts while each call falls within LOGIN_LOCKOUT_TIME of the
\* previous admitted one; every further call in that window returns false,
\* and a blocked call does not extend the lockout
C28_AtMostFiveAdmitted ==
    [][\A identifier \in Identifiers :
           /\ admitted'[identifier].count <= MAX_LOGIN_ATTEMPTS
           /\ (/\ ChecksLogin(identifier)
               /\ admitted[identifier].count >= MAX_LOGIN_ATTEMPTS
               /\ now - admitted[identifier].at <= LOGIN_LOCKOUT_TIME)
                  => ~last'.result
           /\ (ChecksLogin(identifier) /\ ~last'.result)
                  => loginAttempts' = loginAttempts]_vars

-----------------------------------------------------------------------------
(* Properties of magic links *)

\* the verifications of the token that return the user
Verified(t, token) ==
    { i \in 1..MaxTasks :
        /\ t[i].pc \in {"marked", "done"}
        /\ t[i].token = token
        /\ t[i].result = "user" }

\* C27: a magic-link token leads to a successful verifyMagicLink at most
\* once: after one verification has returned the user, every later or
\* concurrent verification of the same token returns null, however the
\* lookups and the mark-used steps interleave; an expired, already used or
\* wrong-type token always returns null and is not marked used
C27_MagicLinkUsedOnce ==
    [][/\ \A token \in Tokens : Cardinality(Verified(tasks', token)) <= 1
       /\ \A i \in 1..MaxTasks :
              (/\ tasks[i].pc = "lookedUp"
               /\ tasks'[i].pc # "lookedUp"
               /\ LET authToken == storage_authTokens[tasks[i].token]
                  IN  \/ authToken = NoAuthToken
                      \/ authToken.type # "magic_link"
                      \/ authToken.usedAt # NotUsed
                      \/ authToken.expiresAt < now)
                 => /\ tasks'[i].result = "null"
                    /\ storage_authTokens' = storage_authTokens
       /\ \A i \in 1..MaxTasks :
              (tasks'[i].pc \in {"marked", "done"} /\ tasks'[i].result = "user")
                 => /\ storage_authTokens'[tasks'[i].token].type = "magic_link"
                    /\ storage_authTokens'[tasks'[i].token].usedAt # NotUsed]_vars

\* two verifications of one token have both looked it up unused; the first
\* has marked it and not yet returned, the second has been answered null
C27_Witness ==
    \E i, j \in 1..MaxTasks :
        /\ i # j
        /\ tasks[i].pc = "marked"
        /\ tasks[j].pc = "done"
        /\ tasks[j].token = tasks[i].token
        /\ tasks[j].found
        /\ tasks[j].result = "null"
        /\ storage_authTokens[tasks[i].token].expiresAt >= now

-----------------------------------------------------------------------------
(* Properties of the Yodlee sync *)

\* C30: under any sequence or interleaving of sync-transactions requests the
\* storage never holds two transactions with the same yodleeTransactionId: a
\* Yodlee transaction that is already stored is neither created again nor
\* modified by a later sync
C30_YodleeIdsUnique ==
    [][/\ \A i, j \in DOMAIN storage_transactions' :
              storage_transactions'[i].yodleeTransactionId
                  = storage_transactions'[j].yodleeTransactionId => i = j
       /\ \A i \in DOMAIN storage_transactions :
              /\ i \in DOMAIN storage_transactions'
              /\ storage_transactions'[i] = storage_transactions[i]]_vars

\* two requests have been answered 200; their responses held the same Yodlee
\* transaction with different amounts, and the storage holds it once
C30_Witness ==
    \E i, j \in 1..MaxTasks :
        /\ i # j
        /\ tasks[i].pc = "done" /\ tasks[i].status = 200
        /\ tasks[j].pc = "done" /\ tasks[j].status = 200
        /\ \E a \in Range(tasks[i].yodleeTransactions),
              b \in Range(tasks[j].yodleeTransactions) :
               a.id = b.id /\ a.amount # b.amount
        /\ Cardinality(DOMAIN storage_transactions) = 1

====
